---- MODULE Spec2Model ----
(***************************************************************************)
(* Model of the registration wizard (the Register page): its validation    *)
(* schemas, its three mutations, its resend countdown and the minimum      *)
(* loading time of the verification; of the Login page; of the session     *)
(* store (AuthProvider) with localStorage; of handleError; and of the HTTP *)
(* gateway (api).                                                          *)
(*                                                                         *)
(* Strings the code inspects character by character (email, otp, nim, nip, *)
(* phoneNumber, password, ...) are sequences of one-character strings, so  *)
(* that endsWith, includes, the length checks and the regular expressions  *)
(* are computed and not assumed.  Field messages are plain strings; a      *)
(* notification carries its text as a sequence of fragments.               *)
(*                                                                         *)
(* One action is one handler run together with the commit and the effects  *)
(* that follow it: the state updates of one handler or callback are        *)
(* committed together (React 18 batching), and a timer of the countdown    *)
(* effect is cleared before a timer of a later render is set.  The part of *)
(* an async handler after an await is the action of the response (or of    *)
(* the timer) that resumes it.  The controls a render disables cannot be   *)
(* used: every user action carries the disabled condition of its control.  *)
(*                                                                         *)
(* Spec is the wizard from its construction over steps 1, 2 and 3 with the *)
(* countdown; SpecEmail and SpecOtp are Spec with every kind of email and  *)
(* of code; SpecDetails is step 3 with every kind of draft, the countdown  *)
(* having run out; SpecAll is the wizard up to the register-user request   *)
(* with one valid draft; SpecFair is Spec with the timer of the countdown  *)
(* firing.  SpecGateway is api with its                                    *)
(* interceptors: requests of any caller, their responses, the token in     *)
(* localStorage.  SpecLogin is the Login page with every kind of input;    *)
(* SpecErrors is its catch with every kind of error and with either of the *)
(* two definitions of handleError the repository holds; SpecSession is     *)
(* both pages with the session store, localStorage and the reload of the   *)
(* page; SpecStore is the session store with a consumer of setAuth and     *)
(* logout; SpecPages is both pages with the links between them and the     *)
(* requests of components torn down; SpecProgram is SpecAll together with  *)
(* the Login page; SpecRevision is the wizard with both kinds of email and *)
(* the register-user request.  Every specification that takes the wizard   *)
(* through steps 1 and 2 has the countdown, the resend button and the back *)
(* buttons.                                                                *)
(*                                                                         *)
(* A request of the wizard goes through api: its rejection runs the        *)
(* response interceptor first, which on a 401 removes the token, alerts    *)
(* and assigns /login to window.location.href; onError and the finally run *)
(* in the same task, and the page goes on until the document of /login is  *)
(* there (LoadNavigation), after which nothing of the page before is left. *)
(* The failure callbacks of the wizard and the catch of Login are followed *)
(* with either of the two definitions of handleError (EmailFailure and     *)
(* EmailFailureOfData, and so on).  The form of step 1 is validated by the *)
(* browser before submit is dispatched (its input has type="email").       *)
(*                                                                         *)
(* The two pages link to each other.  A request in flight outlives its     *)
(* component: it stays in emailReq, otpReq, userReq or loginReq while no   *)
(* successor of the component is on the page, and is counted in orphans    *)
(* once one is constructed, so that its response acts on the page and not  *)
(* on the state of the successor.                                          *)
(***************************************************************************)
EXTENDS Integers, Sequences, FiniteSets, TLC

VARIABLES
    currentStep,        \* useState(1)
    formErrors,         \* useState<FormErrors>({})
    isLoadingEmail,     \* useState(false)
    isLoadingOtp,       \* useState(false)
    isLoadingDetails,   \* useState(false)
    resendDisabled,     \* useState(false)
    countdown,          \* useState(0)
    timers,             \* the setTimeout callbacks of the countdown effect not yet run
    formData,           \* useState<RegisterUserRequest>({...})
    otp,                \* useState("")
    profilePicture,     \* useState<File | undefined>(undefined)
    role,               \* useState<"LECTURER" | "STUDENT" | null>(null)
    mounted,            \* the Register component is on the page
    emailReq,           \* register-email request in flight (its body) or NoReq
    otpReq,             \* verify-OTP request in flight (its body) or NoReq
    userReq,            \* register-user request in flight (its body) or NoReq
    otpPhase,           \* where handleOtpSubmit is suspended: idle, request, delay
    elapsedTime,        \* Date.now() - startTime of the running handleOtpSubmit
    toast,              \* the last notification given to the toaster
    auth,               \* AuthProvider's session
    lastEvent,          \* history: the handler or callback that ran last
    emailConfirmed,     \* history: some register-email request has succeeded
    otpConfirmed,       \* history: a verify-OTP request has succeeded after that
    verifiedEmail,      \* history: the email of the verify-OTP request that succeeded last
    storedToken,        \* localStorage "token"
    location,           \* the path of the document on the page
    navigation,         \* the path assigned to window.location.href, its
                        \* document not loaded yet, or "none"
    alerts,             \* the number of alert() dialogs shown
    calls,              \* the requests made through api, by request instance
    orphans,            \* the requests in flight of components torn down whose
                        \* successor is constructed, counted by kind
    login,              \* the state of the Login component (NoLogin when not on the page)
    loginReq,           \* login request in flight (its body) or NoReq
    caught              \* history: the error the catch of Login received last

wizardVars ==
    <<currentStep, formErrors, isLoadingEmail, isLoadingOtp, isLoadingDetails,
      resendDisabled, countdown, timers, formData, otp, profilePicture, role,
      mounted, emailReq, otpReq, userReq, otpPhase, elapsedTime, toast, auth,
      lastEvent, emailConfirmed, otpConfirmed, verifiedEmail>>

gatewayVars == <<storedToken, location, navigation, alerts, calls, orphans>>

loginVars == <<login, loginReq, caught>>

vars == <<wizardVars, gatewayVars, loginVars>>

----------------------------------------------------------------------------
\* Characters and JavaScript string operations

Digits == {"0","1","2","3","4","5","6","7","8","9"}

Lower == {"a","b","c","d","e","f","g","h","i","j","k","l","m",
          "n","o","p","q","r","s","t","u","v","w","x","y","z"}

Upper == {"A","B","C","D","E","F","G","H","I","J","K","L","M",
          "N","O","P","Q","R","S","T","U","V","W","X","Y","Z"}

Letters == Lower \cup Upper

Alnum == Letters \cup Digits

\* String.prototype.endsWith
endsWith(s, suffix) ==
    /\ Len(suffix) <= Len(s)
    /\ SubSeq(s, Len(s) - Len(suffix) + 1, Len(s)) = suffix

\* String.prototype.includes
includes(s, sub) ==
    \E i \in 0..(Len(s) - Len(sub)) : SubSeq(s, i + 1, i + Len(sub)) = sub

\* /^\d+$/
AllDigits(s) == Len(s) >= 1 /\ \A i \in 1..Len(s) : s[i] \in Digits

RECURSIVE DigitsValue(_)
\* the value of a string of decimal digits
DigitsValue(s) ==
    IF Len(s) = 0 THEN 0
    ELSE 10 * DigitsValue(SubSeq(s, 1, Len(s) - 1))
         + (CHOOSE d \in 0..9 : <<"0","1","2","3","4","5","6","7","8","9">>[d + 1] = s[Len(s)])

\* Number(otp), for the strings otpSchema lets through
Number(s) == DigitsValue(s)

StudentSuffix ==
    <<"@","s","t","u","d","e","n","t",".","u","n","r","i",".","a","c",".","i","d">>

LecturerSuffix ==
    <<"@","l","e","c","t","u","r","e","r",".","u","n","r","i",".","a","c",".","i","d">>

Undefined == "undefined"

\* errors.<field>?.[0] of a flattened ZodError
First(msgs) == IF Len(msgs) = 0 THEN Undefined ELSE msgs[1]

\* the messages of the checks that fail, in the order of the checks
Issue(failed, msg) == IF failed THEN <<msg>> ELSE <<>>

----------------------------------------------------------------------------
\* z.string().email(): zod's email pattern, case-insensitive:
\*   not starting with a dot, no two dots in a row,
\*   local part  [A-Z0-9_'+-.]* [A-Z0-9_+-]
\*   domain      ( [A-Z0-9] [A-Z0-9-]* . )+ [A-Z]{2,}

LocalChars == Alnum \cup {"_", "'", "+", "-", "."}

LocalLast == Alnum \cup {"_", "+", "-"}

\* the domain part; q is the last dot of the domain
DomainAt(d, q) ==
    /\ d[q] = "."
    /\ q >= 2
    /\ Len(d) - q >= 2
    /\ \A i \in (q + 1)..Len(d) : d[i] \in Letters
    /\ d[1] \in Alnum
    /\ \A i \in 1..(q - 1) :
          /\ d[i] \in Alnum \cup {"-", "."}
          /\ d[i] = "." => d[i + 1] \in Alnum

IsDomain(d) == \E q \in 1..Len(d) : DomainAt(d, q)

IsEmail(s) ==
    /\ Len(s) >= 1
    /\ s[1] # "."
    /\ ~ \E i \in 1..(Len(s) - 1) : s[i] = "." /\ s[i + 1] = "."
    /\ \E p \in 2..Len(s) :
          /\ s[p] = "@"
          /\ \A i \in 1..(p - 2) : s[i] \in LocalChars
          /\ s[p - 1] \in LocalLast
          /\ IsDomain(SubSeq(s, p + 1, Len(s)))

----------------------------------------------------------------------------
\* The three schemas

MsgEmailInvalid == "Email tidak valid"
MsgEmailCampus ==
    "Gunakan email kampus UR (@student.unri.ac.id atau @lecturer.unri.ac.id)"
MsgOtpLength == "OTP harus 6 digit"
MsgOtpDigits == "OTP hanya boleh berisi angka"
MsgName == "Nama wajib diisi"
MsgNim == "NIM harus berupa angka dan minimal 8 digit"
MsgNip == "NIP harus berupa angka dan minimal 8 digit"
MsgPhoneLength == "Nomor telepon tidak valid"
MsgPhonePrefix == "Nomor telepon harus diawali dengan 08"
MsgPassword == "Kata sandi minimal 8 karakter"
MsgConfirmLength == "Konfirmasi kata sandi minimal 8 karakter"
MsgConfirmMatch == "Kata sandi dan konfirmasi kata sandi tidak cocok"
MsgNimXorNip == "Hanya salah satu dari NIM atau NIP yang boleh diisi"
MsgFileSize == "Ukuran file maksimum adalah 2MB"
MsgFileType == "Hanya file gambar (JPEG, JPG, PNG) yang diperbolehkan"

\* the refinement of emailSchema
CampusEmail(email) ==
    endsWith(email, StudentSuffix) \/ endsWith(email, LecturerSuffix)

\* emailSchema.safeParse({email}).error.flatten().fieldErrors.email
emailSchema(email) ==
    Issue(~IsEmail(email), MsgEmailInvalid)
    \o Issue(~CampusEmail(email), MsgEmailCampus)

\* otpSchema without .max(6)
otpSchemaNoMax(code) ==
    Issue(Len(code) < 6, MsgOtpLength)
    \o Issue(~AllDigits(code), MsgOtpDigits)

\* otpSchema.safeParse({otp}).error.flatten().fieldErrors.otp
otpSchema(code) ==
    Issue(Len(code) < 6, MsgOtpLength)
    \o Issue(Len(code) > 6, MsgOtpLength)
    \o Issue(~AllDigits(code), MsgOtpDigits)

\* /^\d{8,}$/
DigitsMin8(s) == Len(s) >= 8 /\ AllDigits(s)

\* /^08\d+$/ replaced by a pattern every string matches
PhonePatternAny(s) == Len(s) >= 0

\* /^08\d+$/
PhonePattern(s) ==
    /\ Len(s) >= 3
    /\ s[1] = "0"
    /\ s[2] = "8"
    /\ \A i \in 3..Len(s) : s[i] \in Digits

\* data.nim || data.nip
NimOrNip(data) == data.nim # <<>> \/ data.nip # <<>>

\* (data.nim && !data.nip) || (!data.nim && data.nip)
NimXorNip(data) ==
    \/ (data.nim # <<>> /\ data.nip = <<>>)
    \/ (data.nim = <<>> /\ data.nip # <<>>)

\* userDataSchema with the first refinement on the default path: the issue of
\* the mismatch is a form error and no field error
userDataSchemaNoPath(data) ==
    [ email |-> Issue(~IsEmail(data.email), MsgEmailInvalid),
      name |-> Issue(Len(data.name) < 1, MsgName),
      nim |-> Issue(data.nim # <<>> /\ ~DigitsMin8(data.nim), MsgNim)
              \o Issue(~NimXorNip(data), MsgNimXorNip),
      nip |-> Issue(data.nip # <<>> /\ ~DigitsMin8(data.nip), MsgNip),
      phoneNumber |-> Issue(Len(data.phoneNumber) < 10, MsgPhoneLength)
                      \o Issue(Len(data.phoneNumber) > 13, MsgPhoneLength)
                      \o Issue(~PhonePattern(data.phoneNumber), MsgPhonePrefix),
      password |-> Issue(Len(data.password) < 8, MsgPassword),
      confirmPassword |-> Issue(Len(data.confirmPassword) < 8, MsgConfirmLength) ]

\* userDataSchema.safeParse(formData).error.flatten().fieldErrors, every key present
userDataSchema(data) ==
    [ email |-> Issue(~IsEmail(data.email), MsgEmailInvalid),
      name |-> Issue(Len(data.name) < 1, MsgName),
      nim |-> Issue(data.nim # <<>> /\ ~DigitsMin8(data.nim), MsgNim)
              \o Issue(~NimXorNip(data), MsgNimXorNip),
      nip |-> Issue(data.nip # <<>> /\ ~DigitsMin8(data.nip), MsgNip),
      phoneNumber |-> Issue(Len(data.phoneNumber) < 10, MsgPhoneLength)
                      \o Issue(Len(data.phoneNumber) > 13, MsgPhoneLength)
                      \o Issue(~PhonePattern(data.phoneNumber), MsgPhonePrefix),
      password |-> Issue(Len(data.password) < 8, MsgPassword),
      confirmPassword |-> Issue(Len(data.confirmPassword) < 8, MsgConfirmLength)
                          \o Issue(data.password # data.confirmPassword, MsgConfirmMatch) ]

\* result.success of userDataSchema.safeParse
userDataValid(data) ==
    \A k \in DOMAIN userDataSchema(data) : userDataSchema(data)[k] = <<>>

----------------------------------------------------------------------------
\* Values

Fields == {"email", "otp", "name", "nim", "nip", "phoneNumber",
           "password", "confirmPassword", "profilePicture"}

\* the FormErrors object {}: every field undefined
NoErrors == [f \in Fields |-> Undefined]

NoReq == [pending |-> FALSE]

NoFile == [present |-> FALSE]

NoToast == [kind |-> "none"]

NoAuth == [user |-> "null", token |-> "null"]

\* formData as constructed by useState
EmptyForm ==
    [ email |-> <<>>, name |-> <<>>, nim |-> <<>>, nip |-> <<>>,
      phoneNumber |-> <<>>, password |-> <<>>, confirmPassword |-> <<>> ]

\* the message of a successful response, data.message
ServerMessage == <<"message of the server">>

\* the user of a successful register-user response, data.user
ServerUser == "user of the server"

\* minLoadingTime, in ms
minLoadingTime == 2000

\* setCountdown(60)
ResendSeconds == 60

\* the unit of the clock of handleOtpSubmit, in ms
TimeUnit == 100

\* the clock of handleOtpSubmit is followed up to MaxElapsed units
MaxElapsed == 25

\* the requests through api that are followed
MaxCalls == 3

\* a request instance is sent at most MaxAttempts times
MaxAttempts == 2

\* error.response?.status === 401
Unauthorized == 401

\* the status of a response: 0 stands for an error with no response
Statuses == {200, Unauthorized, 500, 0}

\* a token left in localStorage by an earlier login
StoredToken == "token of an earlier login"

\* a request instance (its config) before it is sent
NoCall ==
    [ state |-> "unsent", attempts |-> 0, retry |-> FALSE,
      authorization |-> <<>>, status |-> 0 ]

\* the request interceptor: the Authorization header when
\* localStorage.getItem("token") is truthy, that is neither null nor ""
requestInterceptor(config) ==
    IF storedToken \notin {"null", ""}
    THEN [config EXCEPT !.authorization = <<"Bearer ", storedToken>>]
    ELSE config

----------------------------------------------------------------------------
\* Errors a request can fail with, and their message

\* An error is described by what handleError looks at: error instanceof
\* AxiosError, error instanceof Error, error.response, error.request,
\* error.response.data (an object, null, or none without a response), the
\* message and the error of that object, and error.message; and by what the
\* response interceptor looks at: error.response?.status (0 without a response).

\* an AxiosError with a response whose body has a message
ErrServerMessage ==
    [ axios |-> TRUE, isError |-> TRUE, response |-> TRUE, request |-> TRUE,
      status |-> 400,
      data |-> "object", bodyMessage |-> "pesan dari server",
      bodyError |-> Undefined, message |-> "Request failed" ]

\* an AxiosError with a response whose body has no message
ErrServerNoMessage ==
    [ axios |-> TRUE, isError |-> TRUE, response |-> TRUE, request |-> TRUE,
      status |-> 500,
      data |-> "object", bodyMessage |-> Undefined,
      bodyError |-> Undefined, message |-> "Request failed" ]

\* an AxiosError with a request and no response
ErrNoResponse ==
    [ axios |-> TRUE, isError |-> TRUE, response |-> FALSE, request |-> TRUE,
      status |-> 0,
      data |-> "none", bodyMessage |-> Undefined,
      bodyError |-> Undefined, message |-> "Network Error" ]

\* an AxiosError with a response whose body has an error and no message
ErrServerError ==
    [ axios |-> TRUE, isError |-> TRUE, response |-> TRUE, request |-> TRUE,
      status |-> 400,
      data |-> "object", bodyMessage |-> Undefined,
      bodyError |-> "error dari server", message |-> "Request failed" ]

\* an AxiosError with a response whose body is the JSON text null
ErrServerNull ==
    [ axios |-> TRUE, isError |-> TRUE, response |-> TRUE, request |-> TRUE,
      status |-> 500,
      data |-> "null", bodyMessage |-> Undefined,
      bodyError |-> Undefined, message |-> "Request failed" ]

\* an AxiosError with a response of status 401
ErrUnauthorized == [ErrServerMessage EXCEPT !.status = Unauthorized]

\* an AxiosError raised before a request was made
ErrConfig ==
    [ axios |-> TRUE, isError |-> TRUE, response |-> FALSE, request |-> FALSE,
      status |-> 0,
      data |-> "none", bodyMessage |-> Undefined,
      bodyError |-> Undefined, message |-> "Invalid URL" ]

\* an Error that is no AxiosError
ErrPlain ==
    [ axios |-> FALSE, isError |-> TRUE, response |-> FALSE, request |-> FALSE,
      status |-> 0,
      data |-> "none", bodyMessage |-> Undefined,
      bodyError |-> Undefined, message |-> "token is undefined" ]

\* new Error(): its message is the empty string
ErrPlainEmpty ==
    [ axios |-> FALSE, isError |-> TRUE, response |-> FALSE, request |-> FALSE,
      status |-> 0,
      data |-> "none", bodyMessage |-> Undefined,
      bodyError |-> Undefined, message |-> "" ]

\* a thrown value that is no Error
ErrNotError ==
    [ axios |-> FALSE, isError |-> FALSE, response |-> FALSE, request |-> FALSE,
      status |-> 0,
      data |-> "none", bodyMessage |-> Undefined,
      bodyError |-> Undefined, message |-> Undefined ]

\* nothing caught yet
NoCaught ==
    [ axios |-> FALSE, isError |-> FALSE, response |-> FALSE, request |-> FALSE,
      status |-> 0,
      data |-> "none", bodyMessage |-> Undefined,
      bodyError |-> Undefined, message |-> "nothing caught" ]

\* x || fallback for x a string or undefined
orElse(x, fallback) == IF x = Undefined \/ x = "" THEN fallback ELSE x

\* handleError of services/api/auth.ts (error.response.data?.message): the
\* text given to the toaster, as its fragments
handleError(error) ==
    IF error.axios
    THEN IF error.response
         THEN <<orElse(IF error.data = "object" THEN error.bodyMessage
                       ELSE Undefined,
                       "Terjadi kesalahan pada server")>>
         ELSE IF error.request
              THEN <<"Tidak ada respons dari server">>
              ELSE <<"Kesalahan konfigurasi: ", error.message>>
    ELSE IF error.isError
         THEN <<error.message>>
         ELSE <<"Terjadi kesalahan yang tidak diketahui">>

\* what a call of handleError ends with: a returned text or a thrown TypeError
Returns(text) == [threw |-> FALSE, text |-> text]

Throws == [threw |-> TRUE, text |-> <<>>]

\* handleError of part_000 (error.response.data.error): reading .error of a
\* body that is null throws
handleErrorOfData(error) ==
    IF error.axios
    THEN IF error.response
         THEN IF error.data = "null"
              THEN Throws
              ELSE Returns(<<orElse(error.bodyError,
                                    "Terjadi kesalahan pada server")>>)
         ELSE IF error.request
              THEN Returns(<<"Tidak ada respons dari server">>)
              ELSE Returns(<<"Kesalahan konfigurasi: ", error.message>>)
    ELSE IF error.isError
         THEN Returns(<<error.message>>)
         ELSE Returns(<<"Terjadi kesalahan yang tidak diketahui">>)

toasterSuccess(message) == [kind |-> "success", message |-> message]

toasterError(message) == [kind |-> "error", message |-> message]

\* toaster.info: no component of this repository calls it
toasterInfo(message) == [kind |-> "info", message |-> message]

----------------------------------------------------------------------------
\* The state after construction

\* the initial session without the read of localStorage
AuthProviderInitialNoRead(stored) == [user |-> "null", token |-> "null"]

\* useState<AuthState>({user: null, token: localStorage.getItem("token") || null})
AuthProviderInitial(stored) ==
    [user |-> "null", token |-> IF stored = "" THEN "null" ELSE stored]

\* no request in flight of a component torn down
NoOrphans == [email |-> 0, otp |-> 0, user |-> 0, login |-> 0]

\* the kinds of request a component makes
OrphanKinds == {"email", "otp", "user", "login"}

\* the requests followed after their component is constructed anew
MaxOrphans == 1

\* the requests in o
total(o) == o.email + o.otp + o.user + o.login

\* the alerts followed
MaxAlerts == 2

\* the Login component off the page
NoLogin ==
    [ mounted |-> FALSE, email |-> <<>>, password |-> <<>>,
      formErrors |-> [email |-> Undefined, password |-> Undefined],
      isLoading |-> FALSE, recaptchaToken |-> "null" ]

\* the Login component as constructed
LoginInitial == [NoLogin EXCEPT !.mounted = TRUE]

\* the state after the load of the page at path, with token in localStorage
InitAt(path, token) ==
    /\ currentStep = 1
    /\ formErrors = NoErrors
    /\ isLoadingEmail = FALSE
    /\ isLoadingOtp = FALSE
    /\ isLoadingDetails = FALSE
    /\ resendDisabled = FALSE
    /\ countdown = 0
    /\ timers = 0
    /\ formData = EmptyForm
    /\ otp = <<>>
    /\ profilePicture = NoFile
    /\ role = "null"
    /\ mounted = (path = "/register")
    /\ emailReq = NoReq
    /\ otpReq = NoReq
    /\ userReq = NoReq
    /\ otpPhase = "idle"
    /\ elapsedTime = 0
    /\ toast = NoToast
    /\ auth = AuthProviderInitial(token)
    /\ lastEvent = "mount"
    /\ emailConfirmed = FALSE
    /\ otpConfirmed = FALSE
    /\ verifiedEmail = <<>>
    /\ storedToken = token
    /\ location = path
    /\ navigation = "none"
    /\ alerts = 0
    /\ calls = [id \in 1..MaxCalls |-> NoCall]
    /\ orphans = NoOrphans
    /\ login = IF path = "/login" THEN LoginInitial ELSE NoLogin
    /\ loginReq = NoReq
    /\ caught = NoCaught

\* the state after the load of /register, with token in localStorage
InitStored(token) == InitAt("/register", token)

Init == InitStored("null")

draftVars == <<formData, otp, profilePicture, role>>
loadingVars == <<isLoadingEmail, isLoadingOtp, isLoadingDetails>>
cooldownVars == <<resendDisabled, countdown, timers>>
reqVars == <<emailReq, otpReq, userReq>>
otpClock == <<otpPhase, elapsedTime>>
historyVars == <<emailConfirmed, otpConfirmed, verifiedEmail>>

----------------------------------------------------------------------------
\* The load of a page

\* the document of path is loaded with token in localStorage: every component
\* is constructed again, the requests in flight and the timers are dropped,
\* and the configs of the requests rejected before are gone with the document
loadPage(path, token) ==
    /\ navigation' = "none"
    /\ orphans' = NoOrphans
    /\ currentStep' = 1
    /\ formErrors' = NoErrors
    /\ isLoadingEmail' = FALSE
    /\ isLoadingOtp' = FALSE
    /\ isLoadingDetails' = FALSE
    /\ resendDisabled' = FALSE
    /\ countdown' = 0
    /\ timers' = 0
    /\ formData' = EmptyForm
    /\ otp' = <<>>
    /\ profilePicture' = NoFile
    /\ role' = "null"
    /\ mounted' = (path = "/register")
    /\ emailReq' = NoReq
    /\ otpReq' = NoReq
    /\ userReq' = NoReq
    /\ otpPhase' = "idle"
    /\ elapsedTime' = 0
    /\ toast' = NoToast
    /\ auth' = AuthProviderInitial(token)
    /\ emailConfirmed' = FALSE
    /\ otpConfirmed' = FALSE
    /\ verifiedEmail' = <<>>
    /\ login' = IF path = "/login" THEN LoginInitial ELSE NoLogin
    /\ loginReq' = NoReq
    /\ caught' = NoCaught
    /\ calls' = [id \in 1..MaxCalls |->
                    IF calls[id].state \in {"sent", "rejected"}
                    THEN [calls[id] EXCEPT !.state = "dropped"]
                    ELSE calls[id]]

\* a client whose mutations make one more attempt
queryClientRetries ==
    [defaultOptions |-> [mutations |-> [retry |-> 1]]]

\* The client of the three mutations (./lib/queryClient, imported by App.tsx)
\* is not among the sources.  Its default options are those the
\* specification states: an attempt that fails is final, a mutation is not
\* sent again by itself.  With a retry to make, a mutation whose attempt is
\* rejected sends the request again and calls neither onError nor the
\* finally of its handler.
queryClient ==
    [defaultOptions |-> [mutations |-> [retry |-> 0]]]

\* the response interceptor on the rejection of a request made through api
\* with a new config (its _retry is not set): on a 401 the token is removed,
\* the alert is shown and window.location.href is assigned.  The promise is
\* rejected in either case, and the document on the page goes on until that
\* of /login is loaded.
onRejected(error) ==
    IF error.status = Unauthorized
    THEN /\ alerts < MaxAlerts
         /\ storedToken' = "null"
         /\ alerts' = alerts + 1
         /\ navigation' = "/login"
    ELSE UNCHANGED <<storedToken, alerts, navigation>>

\* the document assigned to window.location.href is there
LoadNavigation ==
    /\ navigation # "none"
    /\ location' = navigation
    /\ loadPage(navigation, storedToken)
    /\ lastEvent' = "mount"
    /\ UNCHANGED <<storedToken, alerts>>

\* orphans after a Register is constructed: the requests in flight of the
\* Register before are no longer those of the component on the page
orphansAtRegister(o) ==
    [o EXCEPT !.email = @ + (IF emailReq.pending THEN 1 ELSE 0),
              !.otp = @ + (IF otpReq.pending THEN 1 ELSE 0),
              !.user = @ + (IF userReq.pending THEN 1 ELSE 0)]

\* orphans after a Login is constructed
orphansAtLogin(o) ==
    [o EXCEPT !.login = @ + (IF loginReq.pending THEN 1 ELSE 0)]

----------------------------------------------------------------------------
\* Step 1: the email

\* the role handleEmailChange sets
roleOf(value) ==
    IF includes(value, LecturerSuffix) THEN "LECTURER"
    ELSE IF includes(value, StudentSuffix) THEN "STUDENT"
    ELSE "null"

\* onChange of an email input that is rendered at every step
handleEmailChangeAnyStep(value) ==
    /\ mounted /\ ~isLoadingEmail
    /\ formData' = [formData EXCEPT !.email = value]
    /\ role' = roleOf(value)
    /\ formErrors' = IF formErrors.email # Undefined
                     THEN [formErrors EXCEPT !.email = Undefined]
                     ELSE formErrors
    /\ lastEvent' = "handleEmailChange"
    /\ UNCHANGED <<currentStep, loadingVars, cooldownVars, otp, profilePicture,
                   mounted, reqVars, otpClock, toast, auth, historyVars>>
    /\ UNCHANGED <<gatewayVars, loginVars>>

\* onChange of the email input (rendered at step 1, disabled while isLoadingEmail)
handleEmailChange(value) ==
    /\ mounted /\ currentStep = 1 /\ ~isLoadingEmail
    /\ formData' = [formData EXCEPT !.email = value]
    /\ role' = roleOf(value)
    /\ formErrors' = IF formErrors.email # Undefined
                     THEN [formErrors EXCEPT !.email = Undefined]
                     ELSE formErrors
    /\ lastEvent' = "handleEmailChange"
    /\ UNCHANGED <<currentStep, loadingVars, cooldownVars, otp, profilePicture,
                   mounted, reqVars, otpClock, toast, auth, historyVars>>
    /\ UNCHANGED <<gatewayVars, loginVars>>

\* registerEmail(data): the request api posts
registerEmail(data) ==
    requestInterceptor([pending |-> TRUE, body |-> data, authorization |-> <<>>])

\* handleEmailSubmit up to its await (or to its end when it returns before)
handleEmailSubmit ==
    /\ lastEvent' = "handleEmailSubmit"
    /\ IF isLoadingEmail
       THEN UNCHANGED <<formErrors, isLoadingEmail, emailReq>>
       ELSE IF emailSchema(formData.email) # <<>>
            THEN /\ formErrors' =
                        [NoErrors EXCEPT !.email = First(emailSchema(formData.email))]
                 /\ UNCHANGED <<isLoadingEmail, emailReq>>
            ELSE /\ isLoadingEmail' = TRUE
                 /\ emailReq' = registerEmail([email |-> formData.email])
                 /\ UNCHANGED formErrors
    /\ UNCHANGED <<currentStep, isLoadingOtp, isLoadingDetails, cooldownVars,
                   draftVars, mounted, otpReq, userReq, otpClock, toast, auth,
                   historyVars>>
    /\ UNCHANGED <<gatewayVars, loginVars>>

\* the value an <input type="email"> holds for the value it is given: the line
\* breaks are removed, then the blanks at both ends
sanitized(s) ==
    LET t == SelectSeq(s, LAMBDA c : c \notin {"\n", "\r"})
        kept == {i \in 1..Len(t) : t[i] \notin {" ", "\t", "\f"}}
    IN  IF kept = {} THEN <<>>
        ELSE SubSeq(t, CHOOSE i \in kept : \A j \in kept : i <= j,
                       CHOOSE i \in kept : \A j \in kept : i >= j)

\* the domain of a valid e-mail address of HTML: labels joined by dots, each
\* of 1 to 63 letters, digits and hyphens, with no hyphen at either end
IsHost(d) ==
    /\ Len(d) >= 1
    /\ d[1] \in Alnum /\ d[Len(d)] \in Alnum
    /\ \A i \in 1..Len(d) :
          /\ d[i] \in Alnum \cup {"-", "."}
          /\ d[i] = "." => (d[i - 1] \in Alnum /\ d[i + 1] \in Alnum)
    /\ \A i \in 1..(Len(d) - 63) : \E j \in i..(i + 63) : d[j] = "."

\* a valid e-mail address of HTML: 1 or more of the letters, digits and
\* .!#$%&'*+/=?^_{|}~- then @, then the domain (the grave accent, which HTML
\* allows before the @ too, is no character of a string of this module)
validEmailAddress(s) ==
    \E p \in 2..(Len(s) - 1) :
        /\ s[p] = "@"
        /\ \A i \in 1..(p - 1) :
              s[i] \in Alnum \cup {".", "!", "#", "$", "%", "&", "'", "*", "+", "/",
                                  "=", "?", "^", "_", "{", "|", "}", "~", "-"}
        /\ IsHost(SubSeq(s, p + 1, Len(s)))

\* validity.typeMismatch of the email input of step 1 (type="email", not
\* required): its value is not empty and is no valid e-mail address
typeMismatch(value) ==
    /\ sanitized(value) # <<>>
    /\ ~validEmailAddress(sanitized(value))

\* the browser finds the email input invalid when the form of step 1 is
\* submitted: it fires invalid at the input and shows its own message at it;
\* submit is not dispatched, so handleEmailSubmit does not run
reportValidity ==
    /\ lastEvent' = "invalid"
    /\ UNCHANGED <<currentStep, formErrors, loadingVars, cooldownVars, draftVars,
                   mounted, reqVars, otpClock, toast, auth, historyVars>>
    /\ UNCHANGED <<gatewayVars, loginVars>>

\* the submit button of step 1 (disabled while isLoadingEmail) or Enter in the
\* email input: the form has no noValidate, so the browser validates its
\* controls and dispatches submit when they are valid
SubmitEmail ==
    /\ mounted /\ currentStep = 1 /\ ~isLoadingEmail
    /\ IF typeMismatch(formData.email)
       THEN reportValidity
       ELSE handleEmailSubmit

\* the resend button never disabled, its onClick without if (!resendDisabled)
ResendClickNoGuard ==
    /\ mounted /\ currentStep = 2
    /\ handleEmailSubmit

\* the resend button of step 2: disabled={resendDisabled || isLoadingEmail},
\* onClick runs handleEmailSubmit if (!resendDisabled)
ResendClick ==
    /\ mounted /\ currentStep = 2
    /\ ~(resendDisabled \/ isLoadingEmail)
    /\ ~resendDisabled
    /\ handleEmailSubmit

\* the countdown effect without its cleanup
countdownEffectNoCleanup(t, pendingBefore, c) ==
    t + (IF c > 0 THEN 1 ELSE 0)

\* the countdown effect run again after its dependencies changed: the cleanup of
\* the run before (clearTimeout of its timer, if that has not fired), then the
\* body, which sets a timer when the countdown is above 0.  The timers left.
countdownEffect(t, pendingBefore, c) ==
    (t - (IF pendingBefore THEN 1 ELSE 0)) + (IF c > 0 THEN 1 ELSE 0)

\* startResendCountdown without setResendDisabled(true)
startResendCountdownNoDisable ==
    /\ countdown' = ResendSeconds
    /\ timers' = IF countdown = ResendSeconds THEN timers
                 ELSE countdownEffect(timers, countdown > 0, ResendSeconds)
    /\ UNCHANGED resendDisabled

\* startResendCountdown, and the effect when the render changes what it
\* depends on
startResendCountdown ==
    /\ resendDisabled' = TRUE
    /\ countdown' = ResendSeconds
    /\ timers' = IF <<countdown, resendDisabled>> = <<ResendSeconds, TRUE>>
                 THEN timers
                 ELSE countdownEffect(timers, countdown > 0, ResendSeconds)

\* emailMutation.onSuccess, then handleEmailSubmit's finally
EmailSuccess ==
    /\ emailReq.pending
    /\ emailReq' = NoReq
    /\ toast' = toasterSuccess(ServerMessage)
    /\ lastEvent' = "emailMutation.onSuccess"
    /\ IF mounted
       THEN /\ currentStep' = 2
            /\ startResendCountdown
            /\ isLoadingEmail' = FALSE
            /\ emailConfirmed' = TRUE
       ELSE UNCHANGED <<currentStep, cooldownVars, isLoadingEmail, emailConfirmed>>
    /\ UNCHANGED <<formErrors, isLoadingOtp, isLoadingDetails, draftVars, mounted,
                   otpReq, userReq, otpClock, auth, otpConfirmed, verifiedEmail>>
    /\ UNCHANGED <<gatewayVars, loginVars>>

\* emailMutation.onError with no finally in handleEmailSubmit
EmailFailureNoFinally(error) ==
    /\ emailReq.pending
    /\ emailReq' = NoReq
    /\ toast' = toasterError(handleError(error))
    /\ lastEvent' = "emailMutation.onError"
    /\ UNCHANGED <<currentStep, formErrors, loadingVars, cooldownVars, draftVars,
                   mounted, otpReq, userReq, otpClock, auth, historyVars>>
    /\ onRejected(error)
    /\ UNCHANGED <<location, calls, orphans, loginVars>>

\* the register-email request is rejected: the response interceptor, then
\* emailMutation.onError, result being what its handleError(error) ends with
\* (when handleError throws, toaster.error does not run), then
\* handleEmailSubmit's finally, the mutation having no attempt left to make.
EmailCatch(error, result) ==
    /\ emailReq.pending
    /\ onRejected(error)
    /\ IF queryClient.defaultOptions.mutations.retry = 0
       THEN /\ lastEvent' = "emailMutation.onError"
            /\ emailReq' = NoReq
            /\ toast' = IF result.threw THEN toast ELSE toasterError(result.text)
            /\ isLoadingEmail' = FALSE
       ELSE /\ lastEvent' = "emailMutation.retry"
            /\ UNCHANGED <<emailReq, toast, isLoadingEmail>>
    /\ UNCHANGED <<currentStep, formErrors, isLoadingOtp, isLoadingDetails,
                   cooldownVars, draftVars, mounted, otpReq, userReq,
                   otpClock, auth, historyVars>>
    /\ UNCHANGED <<location, calls, orphans, loginVars>>

\* the register-email request fails, handleError being that of
\* services/api/auth.ts
EmailFailure(error) == EmailCatch(error, Returns(handleError(error)))

\* the register-email request fails, handleError being that of part_000
EmailFailureOfData(error) == EmailCatch(error, handleErrorOfData(error))

\* the countdown effect without its else branch
CountdownTickNoEnable ==
    /\ timers > 0
    /\ lastEvent' = "countdown"
    /\ IF mounted
       THEN /\ countdown' = countdown - 1
            /\ timers' = countdownEffect(timers - 1, FALSE, countdown - 1)
       ELSE /\ timers' = timers - 1
            /\ UNCHANGED countdown
    /\ UNCHANGED <<currentStep, formErrors, loadingVars, resendDisabled, draftVars,
                   mounted, reqVars, otpClock, toast, auth, historyVars>>
    /\ UNCHANGED <<gatewayVars, loginVars>>

\* a timer of the countdown effect fires: setCountdown(countdown - 1), a no-op
\* on a component that is unmounted; then the effect runs again
CountdownTick ==
    /\ timers > 0
    /\ lastEvent' = "countdown"
    /\ IF mounted
       THEN /\ countdown' = countdown - 1
            /\ timers' = countdownEffect(timers - 1, FALSE, countdown - 1)
            /\ resendDisabled' = IF countdown - 1 = 0 /\ resendDisabled
                                 THEN FALSE ELSE resendDisabled
       ELSE /\ timers' = timers - 1
            /\ UNCHANGED <<countdown, resendDisabled>>
    /\ UNCHANGED <<currentStep, formErrors, loadingVars, draftVars, mounted,
                   reqVars, otpClock, toast, auth, historyVars>>
    /\ UNCHANGED <<gatewayVars, loginVars>>

----------------------------------------------------------------------------
\* Step 2: the code

\* onChange of the otp input (rendered at step 2, disabled while isLoadingOtp)
handleOtpChange(value) ==
    /\ mounted /\ currentStep = 2 /\ ~isLoadingOtp
    /\ otp' = value
    /\ formErrors' = [formErrors EXCEPT !.otp = Undefined]
    /\ lastEvent' = "handleOtpChange"
    /\ UNCHANGED <<currentStep, loadingVars, cooldownVars, formData,
                   profilePicture, role, mounted, reqVars, otpClock, toast, auth,
                   historyVars>>
    /\ UNCHANGED <<gatewayVars, loginVars>>

\* verifyOtp(data): the request api posts
verifyOtp(data) ==
    requestInterceptor([pending |-> TRUE, body |-> data, authorization |-> <<>>])

\* handleOtpSubmit up to its first await (or to its end when it returns before)
handleOtpSubmit ==
    /\ lastEvent' = "handleOtpSubmit"
    /\ IF isLoadingOtp
       THEN UNCHANGED <<formErrors, isLoadingOtp, otpReq, otpClock>>
       ELSE IF otpSchema(otp) # <<>>
            THEN /\ formErrors' = [NoErrors EXCEPT !.otp = First(otpSchema(otp))]
                 /\ UNCHANGED <<isLoadingOtp, otpReq, otpClock>>
            ELSE /\ isLoadingOtp' = TRUE
                 /\ otpReq' = verifyOtp([email |-> formData.email, code |-> Number(otp)])
                 /\ otpPhase' = "request"
                 /\ elapsedTime' = 0
                 /\ UNCHANGED formErrors
    /\ UNCHANGED <<currentStep, isLoadingEmail, isLoadingDetails, cooldownVars,
                   draftVars, mounted, emailReq, userReq, toast, auth, historyVars>>
    /\ UNCHANGED <<gatewayVars, loginVars>>

\* the submit button of step 2: disabled={isLoadingOtp || isLoadingEmail}
SubmitOtp ==
    /\ mounted /\ currentStep = 2
    /\ ~(isLoadingOtp \/ isLoadingEmail)
    /\ handleOtpSubmit

\* time passes while handleOtpSubmit waits for the response or for its timer
TimePasses ==
    /\ mounted /\ otpPhase \in {"request", "delay"}
    /\ elapsedTime < MaxElapsed * TimeUnit
    /\ elapsedTime' = elapsedTime + TimeUnit
    /\ lastEvent' = "time"
    /\ UNCHANGED <<currentStep, formErrors, loadingVars, cooldownVars, draftVars,
                   mounted, reqVars, otpPhase, toast, auth, historyVars>>
    /\ UNCHANGED <<gatewayVars, loginVars>>

\* handleOtpSubmit after the response: the step it sets and its finally
otpFinish ==
    /\ currentStep' = 3
    /\ isLoadingOtp' = FALSE
    /\ otpPhase' = "idle"
    /\ elapsedTime' = 0

\* handleOtpSubmit without its minimum loading time
OtpSuccessNoDelay ==
    /\ otpReq.pending
    /\ otpReq' = NoReq
    /\ toast' = toasterSuccess(ServerMessage)
    /\ lastEvent' = "otpMutation.onSuccess"
    /\ IF ~mounted
       THEN UNCHANGED <<currentStep, isLoadingOtp, otpClock, otpConfirmed,
                        verifiedEmail>>
       ELSE /\ otpConfirmed' = (otpConfirmed \/ emailConfirmed)
            /\ verifiedEmail' = otpReq.body.email
            /\ otpFinish
    /\ UNCHANGED <<formErrors, isLoadingEmail, isLoadingDetails, cooldownVars,
                   draftVars, mounted, emailReq, userReq, auth, emailConfirmed>>
    /\ UNCHANGED <<gatewayVars, loginVars>>

\* otpMutation.onSuccess, then handleOtpSubmit from elapsedTime on
OtpSuccess ==
    /\ otpReq.pending
    /\ otpReq' = NoReq
    /\ toast' = toasterSuccess(ServerMessage)
    /\ lastEvent' = "otpMutation.onSuccess"
    /\ IF ~mounted
       THEN UNCHANGED <<currentStep, isLoadingOtp, otpClock, otpConfirmed,
                        verifiedEmail>>
       ELSE /\ otpConfirmed' = (otpConfirmed \/ emailConfirmed)
            /\ verifiedEmail' = otpReq.body.email
            /\ IF elapsedTime < minLoadingTime
               THEN /\ otpPhase' = "delay"
                    /\ UNCHANGED <<currentStep, isLoadingOtp, elapsedTime>>
               ELSE otpFinish
    /\ UNCHANGED <<formErrors, isLoadingEmail, isLoadingDetails, cooldownVars,
                   draftVars, mounted, emailReq, userReq, auth, emailConfirmed>>
    /\ UNCHANGED <<gatewayVars, loginVars>>

\* the timer of minLoadingTime - elapsedTime fires
OtpDelayDone ==
    /\ otpPhase = "delay"
    /\ elapsedTime >= minLoadingTime
    /\ otpFinish
    /\ lastEvent' = "minLoadingTime"
    /\ UNCHANGED <<formErrors, isLoadingEmail, isLoadingDetails, cooldownVars,
                   draftVars, mounted, reqVars, toast, auth, historyVars>>
    /\ UNCHANGED <<gatewayVars, loginVars>>

\* handleOtpSubmit with setCurrentStep(3) in its finally
OtpFailureAdvances(error) ==
    /\ otpReq.pending
    /\ otpReq' = NoReq
    /\ toast' = toasterError(handleError(error))
    /\ lastEvent' = "otpMutation.onError"
    /\ IF ~mounted
       THEN UNCHANGED <<currentStep, isLoadingOtp, otpClock>>
       ELSE /\ currentStep' = 3
            /\ isLoadingOtp' = FALSE
            /\ otpPhase' = "idle"
            /\ elapsedTime' = 0
    /\ UNCHANGED <<formErrors, isLoadingEmail, isLoadingDetails, cooldownVars,
                   draftVars, mounted, emailReq, userReq, auth, historyVars>>
    /\ onRejected(error)
    /\ UNCHANGED <<location, calls, orphans, loginVars>>

\* otpMutation.onError without setCurrentStep(1)
OtpFailureStays(error) ==
    /\ otpReq.pending
    /\ otpReq' = NoReq
    /\ toast' = toasterError(handleError(error))
    /\ lastEvent' = "otpMutation.onError"
    /\ IF ~mounted
       THEN UNCHANGED <<isLoadingOtp, otpClock>>
       ELSE /\ isLoadingOtp' = FALSE
            /\ otpPhase' = "idle"
            /\ elapsedTime' = 0
    /\ UNCHANGED <<currentStep, formErrors, isLoadingEmail, isLoadingDetails,
                   cooldownVars, draftVars, mounted, emailReq, userReq, auth,
                   historyVars>>
    /\ onRejected(error)
    /\ UNCHANGED <<location, calls, orphans, loginVars>>

\* the verify-OTP request is rejected: the response interceptor, then
\* otpMutation.onError, result being what its handleError(error) ends with
\* (when handleError throws, neither toaster.error nor setCurrentStep(1) runs),
\* then handleOtpSubmit's finally
OtpCatch(error, result) ==
    /\ otpReq.pending
    /\ onRejected(error)
    /\ IF queryClient.defaultOptions.mutations.retry = 0
       THEN /\ lastEvent' = "otpMutation.onError"
            /\ otpReq' = NoReq
            /\ toast' = IF result.threw THEN toast ELSE toasterError(result.text)
            /\ IF ~mounted
               THEN UNCHANGED <<currentStep, isLoadingOtp, otpClock>>
               ELSE /\ currentStep' = IF result.threw THEN currentStep ELSE 1
                    /\ isLoadingOtp' = FALSE
                    /\ otpPhase' = "idle"
                    /\ elapsedTime' = 0
       ELSE /\ lastEvent' = "otpMutation.retry"
            /\ UNCHANGED <<otpReq, toast, currentStep, isLoadingOtp, otpClock>>
    /\ UNCHANGED <<formErrors, isLoadingEmail, isLoadingDetails,
                   cooldownVars, draftVars, mounted, emailReq, userReq,
                   auth, historyVars>>
    /\ UNCHANGED <<location, calls, orphans, loginVars>>

\* the verify-OTP request fails, handleError being that of
\* services/api/auth.ts
OtpFailure(error) == OtpCatch(error, Returns(handleError(error)))

\* the verify-OTP request fails, handleError being that of part_000
OtpFailureOfData(error) == OtpCatch(error, handleErrorOfData(error))

\* the back button of step 2: disabled={isLoadingOtp || isLoadingEmail}
BackToEmail ==
    /\ mounted /\ currentStep = 2
    /\ ~(isLoadingOtp \/ isLoadingEmail)
    /\ currentStep' = 1
    /\ lastEvent' = "back"
    /\ UNCHANGED <<formErrors, loadingVars, cooldownVars, draftVars, mounted,
                   reqVars, otpClock, toast, auth, historyVars>>
    /\ UNCHANGED <<gatewayVars, loginVars>>

\* the back button of step 3 with setCurrentStep(1)
BackToOtpTwoSteps ==
    /\ mounted /\ currentStep = 3
    /\ ~isLoadingDetails
    /\ currentStep' = 1
    /\ lastEvent' = "back"
    /\ UNCHANGED <<formErrors, loadingVars, cooldownVars, draftVars, mounted,
                   reqVars, otpClock, toast, auth, historyVars>>
    /\ UNCHANGED <<gatewayVars, loginVars>>

\* the back button of step 3: disabled={isLoadingDetails}
BackToOtp ==
    /\ mounted /\ currentStep = 3
    /\ ~isLoadingDetails
    /\ currentStep' = 2
    /\ lastEvent' = "back"
    /\ UNCHANGED <<formErrors, loadingVars, cooldownVars, draftVars, mounted,
                   reqVars, otpClock, toast, auth, historyVars>>
    /\ UNCHANGED <<gatewayVars, loginVars>>

----------------------------------------------------------------------------
\* Step 3: the details

\* onChange of the name input
handleNameChange(value) ==
    /\ mounted /\ currentStep = 3 /\ ~isLoadingDetails
    /\ formData' = [formData EXCEPT !.name = value]
    /\ formErrors' = [formErrors EXCEPT !.name = Undefined]
    /\ lastEvent' = "handleNameChange"
    /\ UNCHANGED <<currentStep, loadingVars, cooldownVars, otp, profilePicture,
                   role, mounted, reqVars, otpClock, toast, auth, historyVars>>
    /\ UNCHANGED <<gatewayVars, loginVars>>

\* onChange of the nimOrNip input: [role === "LECTURER" ? "nip" : "nim"]
handleNimOrNipChange(value) ==
    /\ mounted /\ currentStep = 3 /\ ~isLoadingDetails
    /\ formData' = IF role = "LECTURER"
                   THEN [formData EXCEPT !.nip = value]
                   ELSE [formData EXCEPT !.nim = value]
    /\ formErrors' = [formErrors EXCEPT !.nim = Undefined, !.nip = Undefined]
    /\ lastEvent' = "handleNimOrNipChange"
    /\ UNCHANGED <<currentStep, loadingVars, cooldownVars, otp, profilePicture,
                   role, mounted, reqVars, otpClock, toast, auth, historyVars>>
    /\ UNCHANGED <<gatewayVars, loginVars>>

\* onChange of the phoneNumber input
handlePhoneNumberChange(value) ==
    /\ mounted /\ currentStep = 3 /\ ~isLoadingDetails
    /\ formData' = [formData EXCEPT !.phoneNumber = value]
    /\ formErrors' = [formErrors EXCEPT !.phoneNumber = Undefined]
    /\ lastEvent' = "handlePhoneNumberChange"
    /\ UNCHANGED <<currentStep, loadingVars, cooldownVars, otp, profilePicture,
                   role, mounted, reqVars, otpClock, toast, auth, historyVars>>
    /\ UNCHANGED <<gatewayVars, loginVars>>

\* onChange of the password input
handlePasswordChange(value) ==
    /\ mounted /\ currentStep = 3 /\ ~isLoadingDetails
    /\ formData' = [formData EXCEPT !.password = value]
    /\ formErrors' = [formErrors EXCEPT !.password = Undefined]
    /\ lastEvent' = "handlePasswordChange"
    /\ UNCHANGED <<currentStep, loadingVars, cooldownVars, otp, profilePicture,
                   role, mounted, reqVars, otpClock, toast, auth, historyVars>>
    /\ UNCHANGED <<gatewayVars, loginVars>>

\* onChange of the confirmPassword input
handleConfirmPasswordChange(value) ==
    /\ mounted /\ currentStep = 3 /\ ~isLoadingDetails
    /\ formData' = [formData EXCEPT !.confirmPassword = value]
    /\ formErrors' = [formErrors EXCEPT !.confirmPassword = Undefined]
    /\ lastEvent' = "handleConfirmPasswordChange"
    /\ UNCHANGED <<currentStep, loadingVars, cooldownVars, otp, profilePicture,
                   role, mounted, reqVars, otpClock, toast, auth, historyVars>>
    /\ UNCHANGED <<gatewayVars, loginVars>>

\* handleProfilePictureChange without its size check
fileNeverTooLarge(file) == FALSE

\* file.size > 2 * 1024 * 1024
fileTooLarge(file) == file.size > 2 * 1024 * 1024

allowedTypes == {"image/jpeg", "image/jpg", "image/png"}

\* handleProfilePictureChange with e.target.files[0] = file
handleProfilePictureChange(file) ==
    /\ mounted /\ currentStep = 3 /\ ~isLoadingDetails
    /\ lastEvent' = "handleProfilePictureChange"
    /\ IF fileTooLarge(file)
       THEN /\ formErrors' = [formErrors EXCEPT !.profilePicture = MsgFileSize]
            /\ UNCHANGED profilePicture
       ELSE IF file.type \notin allowedTypes
            THEN /\ formErrors' = [formErrors EXCEPT !.profilePicture = MsgFileType]
                 /\ UNCHANGED profilePicture
            ELSE /\ profilePicture' = [present |-> TRUE, size |-> file.size,
                                       type |-> file.type]
                 /\ formErrors' = [formErrors EXCEPT !.profilePicture = Undefined]
    /\ UNCHANGED <<currentStep, loadingVars, cooldownVars, formData, otp, role,
                   mounted, reqVars, otpClock, toast, auth, historyVars>>
    /\ UNCHANGED <<gatewayVars, loginVars>>

\* registerUser(data, file): the request it posts. Every entry of data whose
\* value is not undefined is appended, then the file if there is one.
registerUser(data, file) ==
    requestInterceptor([ pending |-> TRUE,
                         contentType |-> "multipart/form-data",
                         body |-> data,
                         file |-> file,
                         authorization |-> <<>> ])

\* handleDetailsSubmit up to its await (or to its end when it returns before)
handleDetailsSubmit ==
    /\ lastEvent' = "handleDetailsSubmit"
    /\ IF isLoadingDetails
       THEN UNCHANGED <<formErrors, isLoadingDetails, userReq>>
       ELSE IF ~userDataValid(formData)
            THEN /\ formErrors' =
                      [f \in Fields |->
                          IF f \in DOMAIN userDataSchema(formData)
                          THEN First(userDataSchema(formData)[f])
                          ELSE Undefined]
                 /\ UNCHANGED <<isLoadingDetails, userReq>>
            ELSE /\ isLoadingDetails' = TRUE
                 /\ userReq' = registerUser(formData, profilePicture)
                 /\ UNCHANGED formErrors
    /\ UNCHANGED <<currentStep, isLoadingEmail, isLoadingOtp, cooldownVars,
                   draftVars, mounted, emailReq, otpReq, otpClock, toast, auth,
                   historyVars>>
    /\ UNCHANGED <<gatewayVars, loginVars>>

\* the submit button of step 3: disabled={isLoadingDetails}
SubmitDetails ==
    /\ mounted /\ currentStep = 3
    /\ ~isLoadingDetails
    /\ handleDetailsSubmit

\* the Register component leaves the page: its state is discarded
discard ==
    /\ mounted' = FALSE
    /\ currentStep' = 1
    /\ formErrors' = NoErrors
    /\ isLoadingEmail' = FALSE
    /\ isLoadingOtp' = FALSE
    /\ isLoadingDetails' = FALSE
    /\ resendDisabled' = FALSE
    /\ countdown' = 0
    /\ timers' = countdownEffect(timers, countdown > 0, 0)
    /\ formData' = EmptyForm
    /\ otp' = <<>>
    /\ profilePicture' = NoFile
    /\ role' = "null"
    /\ otpPhase' = "idle"
    /\ elapsedTime' = 0
    /\ emailConfirmed' = FALSE
    /\ otpConfirmed' = FALSE
    /\ verifiedEmail' = <<>>

\* navigate("/login") and the Link to /login: the route of /login renders a
\* Login, constructed unless one is on the page.  A login request in flight
\* of a Login before is no longer that of the component on the page.
navigateToLogin ==
    /\ location' = "/login"
    /\ IF login.mounted
       THEN UNCHANGED <<login, loginReq, orphans>>
       ELSE /\ total(orphansAtLogin(orphans)) <= MaxOrphans
            /\ login' = LoginInitial
            /\ loginReq' = NoReq
            /\ orphans' = orphansAtLogin(orphans)

\* userMutation.onSuccess: setAuth, navigate("/login")
UserSuccess ==
    /\ userReq.pending
    /\ userReq' = NoReq
    /\ toast' = toasterSuccess(ServerMessage)
    /\ auth' = [user |-> ServerUser, token |-> "null"]
    /\ lastEvent' = "userMutation.onSuccess"
    /\ IF mounted
       THEN discard
       ELSE UNCHANGED <<currentStep, formErrors, loadingVars, cooldownVars,
                        draftVars, mounted, otpClock, historyVars>>
    /\ navigateToLogin
    /\ UNCHANGED <<emailReq, otpReq>>
    /\ UNCHANGED <<storedToken, navigation, alerts, calls, caught>>

\* the register-user request is rejected: the response interceptor, then
\* userMutation.onError, result being what its handleError(error) ends with
\* (when handleError throws, toaster.error does not run), then
\* handleDetailsSubmit's finally
UserCatch(error, result) ==
    /\ userReq.pending
    /\ onRejected(error)
    /\ IF queryClient.defaultOptions.mutations.retry = 0
       THEN /\ lastEvent' = "userMutation.onError"
            /\ userReq' = NoReq
            /\ toast' = IF result.threw THEN toast ELSE toasterError(result.text)
            /\ isLoadingDetails' = FALSE
       ELSE /\ lastEvent' = "userMutation.retry"
            /\ UNCHANGED <<userReq, toast, isLoadingDetails>>
    /\ UNCHANGED <<currentStep, formErrors, isLoadingEmail, isLoadingOtp,
                   cooldownVars, draftVars, mounted, emailReq, otpReq,
                   otpClock, auth, historyVars>>
    /\ UNCHANGED <<location, calls, orphans, loginVars>>

\* the register-user request fails, handleError being that of
\* services/api/auth.ts
UserFailure(error) == UserCatch(error, Returns(handleError(error)))

\* the register-user request fails, handleError being that of part_000
UserFailureOfData(error) == UserCatch(error, handleErrorOfData(error))

\* the link to /login under the card
LeavePage ==
    /\ mounted
    /\ discard
    /\ lastEvent' = "unmount"
    /\ navigateToLogin
    /\ UNCHANGED <<reqVars, toast, auth>>
    /\ UNCHANGED <<storedToken, navigation, alerts, calls, caught>>

----------------------------------------------------------------------------
\* The Login page

EngSuffix == <<"@","e","n","g",".","u","n","r","i",".","a","c",".","i","d">>

MsgLoginCampus ==
    "Gunakan email kampus Universitas Riau (student.unri.ac.id atau lecturer.unri.ac.id)"
MsgLoginPassword == "Password minimal 6 karakter"
MsgRecaptcha == "Harap selesaikan reCAPTCHA"

\* the token of a successful login response, response.data.token
LoginToken == "token of this login"

\* signInSchema.safeParse({email, password}).error.flatten().fieldErrors
signInSchema(email, password) ==
    [ email |-> Issue(~IsEmail(email), MsgEmailInvalid)
                \o Issue(~(\/ endsWith(email, StudentSuffix)
                           \/ endsWith(email, LecturerSuffix)
                           \/ endsWith(email, EngSuffix)), MsgLoginCampus),
      password |-> Issue(Len(password) < 6, MsgLoginPassword) ]

\* onChange of the email input of Login: disabled={isLoading}
LoginEmailChange(value) ==
    /\ login.mounted /\ ~login.isLoading
    /\ login' = [login EXCEPT !.email = value, !.formErrors.email = Undefined]
    /\ lastEvent' = "Login.handleEmailChange"
    /\ UNCHANGED <<currentStep, formErrors, loadingVars, cooldownVars, draftVars,
                   mounted, reqVars, otpClock, toast, auth, historyVars>>
    /\ UNCHANGED <<gatewayVars, loginReq, caught>>

\* onChange of the password input of Login: disabled={isLoading}
LoginPasswordChange(value) ==
    /\ login.mounted /\ ~login.isLoading
    /\ login' = [login EXCEPT !.password = value, !.formErrors.password = Undefined]
    /\ lastEvent' = "Login.handlePasswordChange"
    /\ UNCHANGED <<currentStep, formErrors, loadingVars, cooldownVars, draftVars,
                   mounted, reqVars, otpClock, toast, auth, historyVars>>
    /\ UNCHANGED <<gatewayVars, loginReq, caught>>

\* onChange of the ReCAPTCHA widget: a token, or null when it expires
handleRecaptchaVerify(token) ==
    /\ login.mounted
    /\ login' = [login EXCEPT !.recaptchaToken = token]
    /\ lastEvent' = "handleRecaptchaVerify"
    /\ UNCHANGED <<currentStep, formErrors, loadingVars, cooldownVars, draftVars,
                   mounted, reqVars, otpClock, toast, auth, historyVars>>
    /\ UNCHANGED <<gatewayVars, loginReq, caught>>

\* axios.post(".../api/auth/login", data): the request the global axios posts.
\* The interceptors are those of api, which this call does not go through.
loginRequest(data) == [pending |-> TRUE, body |-> data, authorization |-> <<>>]

\* handleSubmit without the test of recaptchaToken
handleSubmitNoRecaptcha ==
    /\ login.mounted /\ ~login.isLoading
    /\ lastEvent' = "Login.handleSubmit"
    /\ LET errors == signInSchema(login.email, login.password) IN
       IF errors.email # <<>> \/ errors.password # <<>>
       THEN /\ login' = [login EXCEPT
                           !.formErrors = [email |-> First(errors.email),
                                           password |-> First(errors.password)]]
            /\ UNCHANGED loginReq
       ELSE /\ login' = [login EXCEPT
                           !.isLoading = TRUE,
                           !.formErrors = [email |-> Undefined,
                                           password |-> Undefined]]
            /\ loginReq' = loginRequest([email |-> login.email,
                                         password |-> login.password,
                                         recaptchaToken |-> login.recaptchaToken])
    /\ UNCHANGED <<currentStep, formErrors, loadingVars, cooldownVars, draftVars,
                   mounted, reqVars, otpClock, toast, auth, historyVars>>
    /\ UNCHANGED <<gatewayVars, caught>>

\* the submit button of Login (disabled={isLoading}): handleSubmit up to its
\* await, or to its end when it returns before
handleSubmit ==
    /\ login.mounted /\ ~login.isLoading
    /\ lastEvent' = "Login.handleSubmit"
    /\ LET errors == signInSchema(login.email, login.password) IN
       IF errors.email # <<>> \/ errors.password # <<>>
       THEN /\ login' = [login EXCEPT
                           !.formErrors = [email |-> First(errors.email),
                                           password |-> First(errors.password)]]
            /\ UNCHANGED loginReq
       ELSE IF login.recaptchaToken = "null" \/ login.recaptchaToken = ""
            THEN /\ login' = [login EXCEPT
                                !.formErrors = [email |-> Undefined,
                                                password |-> MsgRecaptcha]]
                 /\ UNCHANGED loginReq
            ELSE /\ login' = [login EXCEPT
                                !.isLoading = TRUE,
                                !.formErrors = [email |-> Undefined,
                                                password |-> Undefined]]
                 /\ loginReq' =
                       loginRequest([email |-> login.email,
                                     password |-> login.password,
                                     recaptchaToken |-> login.recaptchaToken])
    /\ UNCHANGED <<currentStep, formErrors, loadingVars, cooldownVars, draftVars,
                   mounted, reqVars, otpClock, toast, auth, historyVars>>
    /\ UNCHANGED <<gatewayVars, caught>>

\* the login response without the write to localStorage
LoginSuccessNoStorage ==
    /\ loginReq.pending
    /\ loginReq' = NoReq
    /\ auth' = [user |-> ServerUser, token |-> LoginToken]
    /\ location' = "/dashboard"
    /\ login' = NoLogin
    /\ lastEvent' = "Login.success"
    /\ IF mounted
       THEN discard
       ELSE UNCHANGED <<currentStep, formErrors, loadingVars, cooldownVars,
                        draftVars, mounted, otpClock, historyVars>>
    /\ UNCHANGED <<reqVars, toast>>
    /\ UNCHANGED <<storedToken, navigation, alerts, calls, orphans, caught>>

\* the login response arrives: setAuth, localStorage.setItem, navigate.  No
\* route matches /dashboard, so the component on the page leaves it: the
\* Login, or the Register when the user has followed the link to /register
\* while the request was in flight.
LoginSuccess ==
    /\ loginReq.pending
    /\ loginReq' = NoReq
    /\ auth' = [user |-> ServerUser, token |-> LoginToken]
    /\ storedToken' = LoginToken
    /\ location' = "/dashboard"
    /\ login' = NoLogin
    /\ lastEvent' = "Login.success"
    /\ IF mounted
       THEN discard
       ELSE UNCHANGED <<currentStep, formErrors, loadingVars, cooldownVars,
                        draftVars, mounted, otpClock, historyVars>>
    /\ UNCHANGED <<reqVars, toast>>
    /\ UNCHANGED <<navigation, alerts, calls, orphans, caught>>

\* the catch of handleSubmit, result being what handleError(err) ends with:
\* when handleError throws, the statements after it do not run
LoginCatch(error, result) ==
    /\ loginReq.pending
    /\ loginReq' = NoReq
    /\ caught' = error
    /\ lastEvent' = "Login.catch"
    /\ IF result.threw
       THEN UNCHANGED <<toast, login>>
       ELSE /\ toast' = toasterError(result.text)
            /\ login' = [login EXCEPT !.isLoading = FALSE]
    /\ UNCHANGED <<currentStep, formErrors, loadingVars, cooldownVars, draftVars,
                   mounted, reqVars, otpClock, auth, historyVars>>
    /\ UNCHANGED gatewayVars

\* the login request fails, handleError being that of services/api/auth.ts
LoginFailure(error) == LoginCatch(error, Returns(handleError(error)))

\* the login request fails, handleError being that of part_000
LoginFailureOfData(error) == LoginCatch(error, handleErrorOfData(error))

----------------------------------------------------------------------------
\* The session store and the load of the page

\* the sessions a consumer hands to setAuth
Sessions ==
    { [user |-> ServerUser, token |-> LoginToken],
      [user |-> ServerUser, token |-> "null"] }

\* setAuth of the AuthContext, called by some consumer: the setter of
\* useState, which replaces the session and does nothing else
setAuth(session) ==
    /\ auth' = session
    /\ lastEvent' = "setAuth"
    /\ UNCHANGED <<currentStep, formErrors, loadingVars, cooldownVars, draftVars,
                   mounted, reqVars, otpClock, toast, historyVars>>
    /\ UNCHANGED <<gatewayVars, loginVars>>

\* logout of the AuthContext, called by some consumer.  No component of this
\* repository calls it.
logout ==
    /\ auth' = [user |-> "null", token |-> "null"]
    /\ storedToken' = "null"
    /\ lastEvent' = "logout"
    /\ UNCHANGED <<currentStep, formErrors, loadingVars, cooldownVars, draftVars,
                   mounted, reqVars, otpClock, toast, historyVars>>
    /\ UNCHANGED <<location, navigation, alerts, calls, orphans, loginVars>>

\* the user reloads the page: every component is constructed again, the
\* requests in flight and the timers are dropped, localStorage stays
Reload ==
    /\ loadPage(location, storedToken)
    /\ lastEvent' = "mount"
    /\ UNCHANGED <<storedToken, location, alerts>>

\* the link to /register under the card of Login: the Login leaves the page
\* and a Register is constructed.  The requests in flight of a Register
\* before are no longer those of the component on the page.
LoginLeavePage ==
    /\ login.mounted
    /\ total(orphansAtRegister(orphans)) <= MaxOrphans
    /\ login' = NoLogin
    /\ location' = "/register"
    /\ mounted' = TRUE
    /\ currentStep' = 1
    /\ formErrors' = NoErrors
    /\ isLoadingEmail' = FALSE
    /\ isLoadingOtp' = FALSE
    /\ isLoadingDetails' = FALSE
    /\ resendDisabled' = FALSE
    /\ countdown' = 0
    /\ timers' = 0
    /\ formData' = EmptyForm
    /\ otp' = <<>>
    /\ profilePicture' = NoFile
    /\ role' = "null"
    /\ otpPhase' = "idle"
    /\ elapsedTime' = 0
    /\ emailConfirmed' = FALSE
    /\ otpConfirmed' = FALSE
    /\ verifiedEmail' = <<>>
    /\ orphans' = orphansAtRegister(orphans)
    /\ emailReq' = NoReq
    /\ otpReq' = NoReq
    /\ userReq' = NoReq
    /\ lastEvent' = "Login.unmount"
    /\ UNCHANGED <<toast, auth, storedToken, navigation, alerts, calls, loginReq,
                   caught>>

\* the response to a request whose component is torn down and constructed
\* anew: the callbacks of the mutation (the rest of handleSubmit for a login)
\* run, their setState calls on the component torn down do nothing
OrphanSuccess(kind) ==
    /\ orphans[kind] > 0
    /\ lastEvent' = [ email |-> "orphan emailMutation.onSuccess",
                      otp |-> "orphan otpMutation.onSuccess",
                      user |-> "orphan userMutation.onSuccess",
                      login |-> "orphan Login.success" ][kind]
    /\ toast' = IF kind = "login" THEN toast ELSE toasterSuccess(ServerMessage)
    /\ IF kind = "user"
       THEN /\ auth' = [user |-> ServerUser, token |-> "null"]
            /\ location' = "/login"
            /\ IF mounted
               THEN discard
               ELSE UNCHANGED <<currentStep, formErrors, loadingVars,
                                cooldownVars, draftVars, mounted, otpClock,
                                historyVars>>
            /\ IF login.mounted
               THEN /\ orphans' = [orphans EXCEPT ![kind] = @ - 1]
                    /\ UNCHANGED <<login, loginReq>>
               ELSE /\ total(orphansAtLogin(orphans)) <= MaxOrphans + 1
                    /\ login' = LoginInitial
                    /\ loginReq' = NoReq
                    /\ orphans' = orphansAtLogin([orphans EXCEPT ![kind] = @ - 1])
            /\ UNCHANGED storedToken
       ELSE IF kind = "login"
            THEN /\ auth' = [user |-> ServerUser, token |-> LoginToken]
                 /\ storedToken' = LoginToken
                 /\ location' = "/dashboard"
                 /\ login' = NoLogin
                 /\ IF mounted
                    THEN discard
                    ELSE UNCHANGED <<currentStep, formErrors, loadingVars,
                                     cooldownVars, draftVars, mounted, otpClock,
                                     historyVars>>
                 /\ orphans' = [orphans EXCEPT ![kind] = @ - 1]
                 /\ UNCHANGED loginReq
            ELSE /\ orphans' = [orphans EXCEPT ![kind] = @ - 1]
                 /\ UNCHANGED <<currentStep, formErrors, loadingVars,
                                cooldownVars, draftVars, mounted, otpClock,
                                historyVars, auth, storedToken, location, login,
                                loginReq>>
    /\ UNCHANGED <<reqVars, navigation, alerts, calls, caught>>

\* the rejection of a request whose component is torn down and constructed
\* anew: the response interceptor (a login is posted with the global axios,
\* which has none), then onError or the catch, result being what its
\* handleError(error) ends with
OrphanFailure(kind, error, result) ==
    /\ orphans[kind] > 0
    /\ IF kind = "login"
       THEN /\ caught' = error
            /\ UNCHANGED <<storedToken, alerts, navigation>>
       ELSE /\ onRejected(error)
            /\ UNCHANGED caught
    /\ IF kind = "login" \/ queryClient.defaultOptions.mutations.retry = 0
       THEN /\ orphans' = [orphans EXCEPT ![kind] = @ - 1]
            /\ lastEvent' = [ email |-> "orphan emailMutation.onError",
                              otp |-> "orphan otpMutation.onError",
                              user |-> "orphan userMutation.onError",
                              login |-> "orphan Login.catch" ][kind]
            /\ toast' = IF result.threw THEN toast ELSE toasterError(result.text)
       ELSE /\ lastEvent' = [ email |-> "orphan emailMutation.retry",
                              otp |-> "orphan otpMutation.retry",
                              user |-> "orphan userMutation.retry" ][kind]
            /\ UNCHANGED <<orphans, toast>>
    /\ UNCHANGED <<currentStep, formErrors, loadingVars, cooldownVars, draftVars,
                   mounted, reqVars, otpClock, auth, historyVars>>
    /\ UNCHANGED <<location, calls, login, loginReq>>

----------------------------------------------------------------------------
\* The gateway: api and its interceptors

\* a caller makes a request through api
ApiRequest(id) ==
    /\ calls[id].state = "unsent"
    /\ calls' = [calls EXCEPT
                   ![id] = [requestInterceptor(@) EXCEPT !.state = "sent",
                                                          !.attempts = 1]]
    /\ UNCHANGED <<wizardVars, loginVars, storedToken, location, navigation,
                   alerts, orphans>>

\* a caller sends the config of a rejected request again: the config keeps
\* its _retry.  No caller of this repository does; _retry is there for one.
\* The config is one of the document on the page.
ApiResend(id) ==
    /\ calls[id].state = "rejected"
    /\ calls[id].attempts < MaxAttempts
    /\ calls' = [calls EXCEPT
                   ![id] = [requestInterceptor(@) EXCEPT !.state = "sent",
                                                          !.attempts = @ + 1]]
    /\ UNCHANGED <<wizardVars, loginVars, storedToken, location, navigation,
                   alerts, orphans>>

\* the response interceptor without the test of originalRequest._retry
ApiResponseNoGuard(id, status) ==
    /\ calls[id].state = "sent"
    /\ IF status = 200
       THEN /\ calls' = [calls EXCEPT ![id].state = "resolved", ![id].status = status]
            /\ UNCHANGED <<storedToken, navigation, alerts>>
       ELSE IF status = Unauthorized
            THEN /\ calls' = [calls EXCEPT ![id].retry = TRUE,
                                           ![id].state = "rejected",
                                           ![id].status = status]
                 /\ storedToken' = "null"
                 /\ alerts' = alerts + 1
                 /\ navigation' = "/login"
            ELSE /\ calls' = [calls EXCEPT ![id].state = "rejected",
                                           ![id].status = status]
                 /\ UNCHANGED <<storedToken, navigation, alerts>>
    /\ UNCHANGED <<wizardVars, loginVars, location, orphans>>

\* the response of a request arrives: the response interceptor, then the
\* promise of the caller is resolved or rejected
ApiResponse(id, status) ==
    /\ calls[id].state = "sent"
    /\ IF status = 200
       THEN /\ calls' = [calls EXCEPT ![id].state = "resolved", ![id].status = status]
            /\ UNCHANGED <<storedToken, navigation, alerts>>
       ELSE IF status = Unauthorized /\ ~calls[id].retry
            THEN /\ calls' = [calls EXCEPT ![id].retry = TRUE,
                                           ![id].state = "rejected",
                                           ![id].status = status]
                 /\ storedToken' = "null"
                 /\ alerts' = alerts + 1
                 /\ navigation' = "/login"
            ELSE /\ calls' = [calls EXCEPT ![id].state = "rejected",
                                           ![id].status = status]
                 /\ UNCHANGED <<storedToken, navigation, alerts>>
    /\ UNCHANGED <<wizardVars, loginVars, location, orphans>>

----------------------------------------------------------------------------
\* What the user types and what the server answers

EmailStudent ==
    <<"a","@","s","t","u","d","e","n","t",".","u","n","r","i",".","a","c",".","i","d">>

EmailLecturer ==
    <<"b","@","l","e","c","t","u","r","e","r",".","u","n","r","i",".","a","c",".","i","d">>

EmailGmail == <<"a","@","g","m","a","i","l",".","c","o","m">>

OtpSixDigits == <<"1","2","3","4","5","6">>

OtpWithLetter == <<"1","2","a","4","5","6">>

FlowEmails == {EmailStudent, EmailGmail}

FlowOtps == {OtpSixDigits, OtpWithLetter}

FlowErrors == {ErrServerMessage, ErrNoResponse, ErrUnauthorized}

AllErrors == {ErrServerMessage, ErrServerNoMessage, ErrNoResponse, ErrUnauthorized}

\* the bodies the two definitions of handleError read differently
DataErrors == {ErrServerMessage, ErrServerError, ErrServerNull}

----------------------------------------------------------------------------
\* The wizard from its construction: email, code, resend, back, countdown

Next ==
    \/ \E value \in FlowEmails : handleEmailChange(value)
    \/ SubmitEmail
    \/ ResendClick
    \/ EmailSuccess
    \/ \E error \in FlowErrors : EmailFailure(error)
    \/ \E error \in DataErrors : EmailFailureOfData(error)
    \/ CountdownTick
    \/ \E value \in FlowOtps : handleOtpChange(value)
    \/ SubmitOtp
    \/ TimePasses
    \/ OtpSuccess
    \/ OtpDelayDone
    \/ \E error \in FlowErrors : OtpFailure(error)
    \/ \E error \in DataErrors : OtpFailureOfData(error)
    \/ BackToEmail
    \/ BackToOtp
    \/ LeavePage
    \/ LoadNavigation

Spec == Init /\ [][Next]_vars

----------------------------------------------------------------------------
\* The wizard of Spec with every kind of text in the email input

\* What the user types or pastes into the email input.  The input has
\* type="email": the value it gives to onChange is the sanitized one.
AllEmails ==
    { EmailStudent, EmailLecturer, EmailGmail,
      \* upper case: a valid address, and endsWith is case-sensitive
      <<"A","@","S","T","U","D","E","N","T",".","U","N","R","I",".","A","C",".","I","D">>,
      \* the suffix alone
      StudentSuffix,
      \* the domain only ends with student.unri.ac.id
      <<"a","@","x","s","t","u","d","e","n","t",".","u","n","r","i",".","a","c",".","i","d">>,
      \* the suffix is inside and not at the end
      <<"a","@","s","t","u","d","e","n","t",".","u","n","r","i",".","a","c",".","i","d",".","c","o","m">>,
      \* ends with the suffix and is no address
      <<"a",".",".","b","@","s","t","u","d","e","n","t",".","u","n","r","i",".","a","c",".","i","d">>,
      <<".","a","@","s","t","u","d","e","n","t",".","u","n","r","i",".","a","c",".","i","d">>,
      <<"a"," ","b","@","s","t","u","d","e","n","t",".","u","n","r","i",".","a","c",".","i","d">>,
      <<"a",".","@","l","e","c","t","u","r","e","r",".","u","n","r","i",".","a","c",".","i","d">>,
      <<"a","@","b","@","l","e","c","t","u","r","e","r",".","u","n","r","i",".","a","c",".","i","d">>,
      \* a trailing blank
      <<"a","@","s","t","u","d","e","n","t",".","u","n","r","i",".","a","c",".","i","d"," ">>,
      <<>> }

NextEmail ==
    \/ \E text \in AllEmails : handleEmailChange(sanitized(text))
    \/ SubmitEmail
    \/ ResendClick
    \/ EmailSuccess
    \/ \E error \in AllErrors : EmailFailure(error)
    \/ CountdownTick
    \/ handleOtpChange(OtpSixDigits)
    \/ SubmitOtp
    \/ TimePasses
    \/ OtpSuccess
    \/ OtpDelayDone
    \/ OtpFailure(ErrServerMessage)
    \/ BackToEmail
    \/ BackToOtp
    \/ LeavePage
    \/ LoadNavigation

SpecEmail == Init /\ [][NextEmail]_vars

----------------------------------------------------------------------------
\* The wizard of Spec with every kind of code

AllOtps ==
    { OtpSixDigits, OtpWithLetter,
      <<"0","0","0","0","4","2">>,
      <<"1","2","3","4","5">>,
      <<"1","2","3","4","5","6","7">>,
      <<"1","2","3","4","5","a","7">>,
      <<"1","2","3","4","5"," ">>,
      <<"-","1","2","3","4","5">>,
      <<"1",".","2","3","4","5">>,
      <<"a">>,
      <<>> }

NextOtp ==
    \/ handleEmailChange(EmailStudent)
    \/ SubmitEmail
    \/ ResendClick
    \/ EmailSuccess
    \/ \E error \in {ErrServerMessage, ErrUnauthorized} : EmailFailure(error)
    \/ CountdownTick
    \/ \E value \in AllOtps : handleOtpChange(value)
    \/ SubmitOtp
    \/ TimePasses
    \/ OtpSuccess
    \/ OtpDelayDone
    \/ \E error \in AllErrors : OtpFailure(error)
    \/ BackToEmail
    \/ BackToOtp
    \/ LeavePage
    \/ LoadNavigation

SpecOtp == Init /\ [][NextOtp]_vars

----------------------------------------------------------------------------
\* Step 3 with every kind of draft

NameAnn == <<"A","n","n">>

EightDigits == <<"1","2","3","4","5","6","7","8">>

SevenDigits == <<"1","2","3","4","5","6","7">>

EightWithLetter == <<"1","2","3","4","5","6","7","a">>

PhoneTenDigits == <<"0","8","1","2","3","4","5","6","7","8">>

PasswordEight == <<"p","a","s","s","w","o","r","d">>

PasswordOther == <<"p","a","s","s","w","o","r","e">>

PasswordShort == <<"s","h","o","r","t">>

AllNames == {<<>>, NameAnn}

AllNims == {<<>>, EightDigits, SevenDigits}

AllNips == {<<>>, EightDigits, EightWithLetter}

AllPhones ==
    { PhoneTenDigits,
      <<"0","8","1","2","3","4","5","6","7">>,
      <<"0","8","1","2","3","4","5","6","7","8","9","0","1","2">>,
      <<"0","7","1","2","3","4","5","6","7","8">>,
      <<"0","8","1","2","3","a","5","6","7","8">>,
      <<>> }

AllPasswords == {PasswordEight, PasswordShort}

AllConfirmations == {PasswordEight, PasswordOther, PasswordShort}

AllFiles ==
    { [size |-> 2 * 1024 * 1024, type |-> "image/png"],
      [size |-> 2 * 1024 * 1024 + 1, type |-> "image/png"],
      [size |-> 0, type |-> "image/jpg"],
      [size |-> 1024, type |-> "image/jpeg"],
      [size |-> 1024, type |-> "image/gif"],
      [size |-> 1024, type |-> ""],
      [size |-> 3 * 1024 * 1024, type |-> "application/pdf"] }

\* The states of step 3 in which the countdown has run out and nothing is in
\* flight, with whatever the user has typed into the fields.  Both nim and nip
\* can hold text: the field the input edits follows the role, and the role
\* follows the email, which the user can change after going back to step 1.
InitDetails ==
    /\ currentStep = 3
    /\ formErrors = NoErrors
    /\ isLoadingEmail = FALSE
    /\ isLoadingOtp = FALSE
    /\ isLoadingDetails = FALSE
    /\ resendDisabled = FALSE
    /\ countdown = 0
    /\ timers = 0
    /\ \E email \in {EmailStudent, EmailLecturer}, name \in AllNames,
          nim \in AllNims, nip \in AllNips, phoneNumber \in AllPhones,
          password \in AllPasswords, confirmPassword \in AllConfirmations :
          /\ formData = [ email |-> email, name |-> name, nim |-> nim, nip |-> nip,
                          phoneNumber |-> phoneNumber, password |-> password,
                          confirmPassword |-> confirmPassword ]
          /\ role = roleOf(email)
    /\ otp = OtpSixDigits
    /\ profilePicture = NoFile
    /\ mounted = TRUE
    /\ emailReq = NoReq
    /\ otpReq = NoReq
    /\ userReq = NoReq
    /\ otpPhase = "idle"
    /\ elapsedTime = 0
    /\ toast = toasterSuccess(ServerMessage)
    /\ auth = NoAuth
    /\ lastEvent = "countdown"
    /\ emailConfirmed = TRUE
    /\ otpConfirmed = TRUE
    /\ verifiedEmail = formData.email
    /\ storedToken = "null"
    /\ location = "/register"
    /\ navigation = "none"
    /\ alerts = 0
    /\ calls = [id \in 1..MaxCalls |-> NoCall]
    /\ orphans = NoOrphans
    /\ login = NoLogin
    /\ loginReq = NoReq
    /\ caught = NoCaught

NextDetails ==
    \/ \E file \in AllFiles : handleProfilePictureChange(file)
    \/ SubmitDetails
    \/ UserSuccess
    \/ \E error \in AllErrors : UserFailure(error)
    \/ LoadNavigation

SpecDetails == InitDetails /\ [][NextDetails]_vars

----------------------------------------------------------------------------
\* The whole wizard from its construction, the user typing one valid draft

NextAll ==
    \/ handleEmailChange(EmailStudent)
    \/ SubmitEmail
    \/ ResendClick
    \/ EmailSuccess
    \/ EmailFailure(ErrServerMessage)
    \/ EmailFailureOfData(ErrServerNull)
    \/ CountdownTick
    \/ handleOtpChange(OtpSixDigits)
    \/ SubmitOtp
    \/ TimePasses
    \/ OtpSuccess
    \/ OtpDelayDone
    \/ OtpFailure(ErrServerMessage)
    \/ OtpFailureOfData(ErrServerNull)
    \/ BackToEmail
    \/ BackToOtp
    \/ handleNameChange(NameAnn)
    \/ handleNimOrNipChange(EightDigits)
    \/ handlePhoneNumberChange(PhoneTenDigits)
    \/ handlePasswordChange(PasswordEight)
    \/ handleConfirmPasswordChange(PasswordEight)
    \/ SubmitDetails
    \/ UserSuccess
    \/ \E error \in {ErrServerMessage, ErrUnauthorized} : UserFailure(error)
    \/ UserFailureOfData(ErrServerNull)
    \/ LeavePage
    \/ LoadNavigation

SpecAll == Init /\ [][NextAll]_vars

----------------------------------------------------------------------------
\* The wizard of Spec with the timers of the browser: a timer that is set and
\* not cleared fires

SpecFair ==
    /\ Init
    /\ [][Next]_vars
    /\ WF_vars(CountdownTick)

----------------------------------------------------------------------------
\* The gateway from the load of the page, with or without a stored token

InitGateway == \E token \in {"null", StoredToken} : InitStored(token)

NextGateway ==
    \/ \E id \in 1..MaxCalls : ApiRequest(id)
    \/ \E id \in 1..MaxCalls : ApiResend(id)
    \/ \E id \in 1..MaxCalls, status \in Statuses : ApiResponse(id, status)
    \/ LoadNavigation

SpecGateway == InitGateway /\ [][NextGateway]_vars

----------------------------------------------------------------------------
\* The Login page from the load of /login, with every kind of input

EmailEng == <<"c","@","e","n","g",".","u","n","r","i",".","a","c",".","i","d">>

\* ends with a campus suffix and is no address: it starts with a dot
EmailDotStudent == <<".">> \o EmailStudent

PasswordSix == <<"s","e","c","r","e","t">>

RecaptchaToken == "token of the widget"

LoginEmails == {EmailStudent, EmailEng, EmailGmail, EmailDotStudent}

LoginPasswords == {PasswordSix, PasswordShort}

RecaptchaTokens == {"null", "", RecaptchaToken}

InitLogin == \E token \in {"null", StoredToken} : InitAt("/login", token)

NextLogin ==
    \/ \E value \in LoginEmails : LoginEmailChange(value)
    \/ \E value \in LoginPasswords : LoginPasswordChange(value)
    \/ \E token \in RecaptchaTokens : handleRecaptchaVerify(token)
    \/ handleSubmit
    \/ LoginSuccess
    \/ \E error \in AllErrors : LoginFailure(error)
    \/ \E error \in DataErrors : LoginFailureOfData(error)
    \/ LoginLeavePage

SpecLogin == InitLogin /\ [][NextLogin]_vars

----------------------------------------------------------------------------
\* The catch of Login with every kind of error and either handleError

AllErrorShapes ==
    { ErrServerMessage, ErrServerNoMessage, ErrServerError, ErrServerNull,
      ErrNoResponse, ErrConfig, ErrPlain, ErrPlainEmpty, ErrNotError }

NextErrors ==
    \/ LoginEmailChange(EmailStudent)
    \/ LoginPasswordChange(PasswordSix)
    \/ handleRecaptchaVerify(RecaptchaToken)
    \/ handleSubmit
    \/ \E error \in AllErrorShapes : LoginFailure(error)
    \/ \E error \in AllErrorShapes : LoginFailureOfData(error)

SpecErrors == InitLogin /\ [][NextErrors]_vars

----------------------------------------------------------------------------
\* The session: both pages with one valid input each, the wizard with its
\* countdown, resend and back buttons, the session store, localStorage with
\* and without a token, the reload of the page and the load of /login after
\* a 401.  The draft of step 3 is typed at the start or not at all.

\* a wizard at step 3 some time after the load of /register with token in
\* localStorage: the email and the code are confirmed, the draft of a student
\* is typed, the countdown has run out
InitDrafted(token) ==
    /\ currentStep = 3
    /\ formErrors = NoErrors
    /\ isLoadingEmail = FALSE
    /\ isLoadingOtp = FALSE
    /\ isLoadingDetails = FALSE
    /\ resendDisabled = FALSE
    /\ countdown = 0
    /\ timers = 0
    /\ formData = [ email |-> EmailStudent, name |-> NameAnn, nim |-> EightDigits,
                    nip |-> <<>>, phoneNumber |-> PhoneTenDigits,
                    password |-> PasswordEight, confirmPassword |-> PasswordEight ]
    /\ otp = OtpSixDigits
    /\ profilePicture = NoFile
    /\ role = roleOf(EmailStudent)
    /\ mounted = TRUE
    /\ emailReq = NoReq
    /\ otpReq = NoReq
    /\ userReq = NoReq
    /\ otpPhase = "idle"
    /\ elapsedTime = 0
    /\ toast = toasterSuccess(ServerMessage)
    /\ auth = AuthProviderInitial(token)
    /\ lastEvent = "countdown"
    /\ emailConfirmed = TRUE
    /\ otpConfirmed = TRUE
    /\ verifiedEmail = EmailStudent
    /\ storedToken = token
    /\ location = "/register"
    /\ navigation = "none"
    /\ alerts = 0
    /\ calls = [id \in 1..MaxCalls |-> NoCall]
    /\ orphans = NoOrphans
    /\ login = NoLogin
    /\ loginReq = NoReq
    /\ caught = NoCaught

InitSession ==
    \/ \E path \in {"/register", "/login"}, token \in {"null", StoredToken} :
          InitAt(path, token)
    \/ \E token \in {"null", StoredToken} : InitDrafted(token)

NextSession ==
    \/ handleEmailChange(EmailStudent)
    \/ SubmitEmail
    \/ ResendClick
    \/ EmailSuccess
    \/ \E error \in {ErrServerMessage, ErrUnauthorized} : EmailFailure(error)
    \/ CountdownTick
    \/ handleOtpChange(OtpSixDigits)
    \/ SubmitOtp
    \/ TimePasses
    \/ OtpSuccess
    \/ OtpDelayDone
    \/ \E error \in {ErrServerMessage, ErrUnauthorized} : OtpFailure(error)
    \/ BackToEmail
    \/ BackToOtp
    \/ SubmitDetails
    \/ UserSuccess
    \/ \E error \in {ErrServerMessage, ErrUnauthorized} : UserFailure(error)
    \/ LeavePage
    \/ LoginEmailChange(EmailStudent)
    \/ LoginPasswordChange(PasswordSix)
    \/ handleRecaptchaVerify(RecaptchaToken)
    \/ handleSubmit
    \/ LoginSuccess
    \/ LoginFailure(ErrServerMessage)
    \/ Reload
    \/ LoadNavigation

SpecSession == InitSession /\ [][NextSession]_vars

----------------------------------------------------------------------------
\* The session store by itself: the Login page and its link to /register, a
\* consumer that calls setAuth and logout, the reload of the page;
\* localStorage holds no token, the empty string or a token at the start

InitStore == \E token \in {"null", "", StoredToken} : InitAt("/login", token)

NextStore ==
    \/ LoginEmailChange(EmailStudent)
    \/ LoginPasswordChange(PasswordSix)
    \/ handleRecaptchaVerify(RecaptchaToken)
    \/ handleSubmit
    \/ LoginSuccess
    \/ LoginFailure(ErrServerMessage)
    \/ LoginLeavePage
    \/ \E session \in Sessions : setAuth(session)
    \/ logout
    \/ Reload

SpecStore == InitStore /\ [][NextStore]_vars

----------------------------------------------------------------------------
\* The two pages and the links between them: the requests a component leaves
\* in flight when it is torn down, and their responses.  The wizard is that
\* of Spec with one email and one code: the draft of step 3 is not typed, so
\* no register-user request is made and none is left in flight.

NextPages ==
    \/ handleEmailChange(EmailStudent)
    \/ SubmitEmail
    \/ ResendClick
    \/ EmailSuccess
    \/ EmailFailure(ErrServerMessage)
    \/ CountdownTick
    \/ handleOtpChange(OtpSixDigits)
    \/ SubmitOtp
    \/ TimePasses
    \/ OtpSuccess
    \/ OtpDelayDone
    \/ OtpFailure(ErrServerMessage)
    \/ BackToEmail
    \/ BackToOtp
    \/ LeavePage
    \/ LoginEmailChange(EmailStudent)
    \/ LoginPasswordChange(PasswordSix)
    \/ handleRecaptchaVerify(RecaptchaToken)
    \/ handleSubmit
    \/ LoginSuccess
    \/ LoginFailure(ErrServerMessage)
    \/ LoginLeavePage
    \/ \E kind \in {"email", "otp", "login"} : OrphanSuccess(kind)
    \/ \E kind \in {"email", "otp", "login"} :
          OrphanFailure(kind, ErrServerMessage, Returns(handleError(ErrServerMessage)))

SpecPages == Init /\ [][NextPages]_vars

----------------------------------------------------------------------------
\* The whole program from the load of /register: SpecAll and the Login page

NextProgram ==
    \/ NextAll
    \/ LoginEmailChange(EmailStudent)
    \/ LoginPasswordChange(PasswordSix)
    \/ handleRecaptchaVerify(RecaptchaToken)
    \/ handleSubmit
    \/ LoginSuccess
    \/ LoginFailure(ErrServerMessage)
    \/ LoginFailureOfData(ErrServerNull)

SpecProgram == Init /\ [][NextProgram]_vars

----------------------------------------------------------------------------
\* The wizard with both kinds of email, the way back to step 1 and the
\* register-user request, the rest of the draft typed at the start

NextRevision ==
    \/ \E value \in {EmailStudent, EmailLecturer} : handleEmailChange(value)
    \/ SubmitEmail
    \/ ResendClick
    \/ EmailSuccess
    \/ EmailFailure(ErrServerMessage)
    \/ CountdownTick
    \/ handleOtpChange(OtpSixDigits)
    \/ SubmitOtp
    \/ TimePasses
    \/ OtpSuccess
    \/ OtpDelayDone
    \/ OtpFailure(ErrServerMessage)
    \/ BackToEmail
    \/ BackToOtp
    \/ \E value \in {<<>>, EightDigits} : handleNimOrNipChange(value)
    \/ SubmitDetails
    \/ UserSuccess
    \/ \E error \in {ErrServerMessage, ErrUnauthorized} : UserFailure(error)
    \/ LeavePage
    \/ LoadNavigation

SpecRevision == InitDrafted("null") /\ [][NextRevision]_vars

----------------------------------------------------------------------------
\* Properties

\* C1: at step 2 some register-email request has succeeded; at step 3 a
\* register-email request and, after it, a verify-OTP request have succeeded.
C1_StepsAreConfirmed ==
    /\ currentStep \in {1, 2, 3}
    /\ currentStep = 2 => emailConfirmed
    /\ currentStep = 3 => emailConfirmed /\ otpConfirmed

C1_Witness == mounted /\ currentStep = 3 /\ emailConfirmed /\ otpConfirmed

\* C2: the step never goes from 1 to 3 in one transition, and while the page
\* is mounted it decreases only by the back button or by a failed verification;
\* in particular no response moves the wizard off step 3.
C2_NoAutomaticRevisit ==
    [][ /\ (currentStep = 1 => currentStep' # 3)
        /\ (mounted' /\ currentStep' < currentStep
              => lastEvent' \in {"back", "otpMutation.onError"}) ]_vars

\* C3: submitting an email that is not a valid address ending in
\* @student.unri.ac.id or @lecturer.unri.ac.id issues no register-email request,
\* leaves the wizard at step 1 and leaves an error message for the email field
\* (formErrors.email, which the page renders under the input).
C3_InvalidEmailRejected ==
    ( /\ lastEvent \in {"handleEmailSubmit", "invalid"}
      /\ ~( /\ IsEmail(formData.email)
            /\ \/ endsWith(formData.email, StudentSuffix)
               \/ endsWith(formData.email, LecturerSuffix) ) )
    => /\ ~emailReq.pending
       /\ ~isLoadingEmail
       /\ currentStep = 1
       /\ formErrors.email # Undefined

\* C4: submitting step 2 issues a verify-OTP request exactly when the code is
\* 6 characters long and all of them are digits; any other code gives an error
\* on the otp field, no request, and the step stays 2.
C4_OtpRequestIffSixDigits ==
    lastEvent = "handleOtpSubmit"
    => /\ otpReq.pending <=> (Len(otp) = 6 /\ \A i \in 1..Len(otp) : otp[i] \in Digits)
       /\ otpReq.pending => otpReq.body = [email |-> formData.email, code |-> Number(otp)]
       /\ ~otpReq.pending => /\ formErrors.otp # Undefined
                             /\ currentStep = 2
                             /\ ~isLoadingOtp

C4_Witness ==
    /\ lastEvent = "handleOtpSubmit"
    /\ otp = OtpWithLetter
    /\ formErrors.otp = MsgOtpDigits
    /\ ~otpReq.pending
    /\ countdown = 0 /\ ~resendDisabled

\* C5: when a verify-OTP request fails, the wizard is at step 1, an error is
\* given to the toaster, the loading flag of the code is cleared, and nothing
\* of that request is left that could enter step 3.
C5_OtpFailureRegresses ==
    (mounted /\ lastEvent = "otpMutation.onError")
    => /\ currentStep = 1
       /\ toast.kind = "error"
       /\ ~isLoadingOtp
       /\ otpPhase = "idle"
       /\ ~otpReq.pending

\* C6: step 3 is entered no earlier than minLoadingTime after the verify-OTP
\* request was issued, and a response that arrives after minLoadingTime or more
\* enters step 3 at once.
C6_MinimumLoadingTime ==
    [][ /\ (currentStep # 3 /\ currentStep' = 3) => elapsedTime >= 2000
        /\ (mounted /\ otpReq.pending /\ lastEvent' = "otpMutation.onSuccess"
              /\ elapsedTime >= 2000)
             => (currentStep' = 3 /\ otpPhase' = "idle") ]_vars

C6_Witness ==
    /\ mounted /\ currentStep = 3 /\ lastEvent = "minLoadingTime"

\* C7: a draft with both nim and nip is rejected, a draft with neither is
\* rejected, and a draft with exactly one of them, all digits and at least 8
\* long, whose other fields are valid is accepted and sent.
C7_ExactlyOneIdentifier ==
    lastEvent = "handleDetailsSubmit"
    => /\ (formData.nim # <<>> /\ formData.nip # <<>>) => ~userReq.pending
       /\ (formData.nim = <<>> /\ formData.nip = <<>>) => ~userReq.pending
       /\ ( /\ (formData.nim = <<>>) # (formData.nip = <<>>)
            /\ \A id \in {formData.nim, formData.nip} :
                  id = <<>> \/ (Len(id) >= 8 /\ \A i \in 1..Len(id) : id[i] \in Digits)
            /\ Len(formData.name) >= 1
            /\ Len(formData.phoneNumber) \in 10..13
            /\ SubSeq(formData.phoneNumber, 1, 2) = <<"0", "8">>
            /\ \A i \in 3..Len(formData.phoneNumber) : formData.phoneNumber[i] \in Digits
            /\ Len(formData.password) >= 8
            /\ formData.confirmPassword = formData.password )
          => (userReq.pending /\ userReq.body = formData /\ isLoadingDetails)

C7_Witness ==
    /\ lastEvent = "handleDetailsSubmit"
    /\ userReq.pending
    /\ formData.nim = EightDigits /\ formData.nip = <<>>

\* C8: when confirmPassword differs from password, no register-user request is
\* issued, confirmPassword has an error, and password has an error only for
\* its own length.
C8_MismatchOnConfirmPassword ==
    (lastEvent = "handleDetailsSubmit" /\ formData.confirmPassword # formData.password)
    => /\ ~userReq.pending
       /\ formErrors.confirmPassword # Undefined
       /\ formErrors.password # Undefined <=> Len(formData.password) < 8

C8_Witness ==
    /\ lastEvent = "handleDetailsSubmit"
    /\ formData.password = PasswordEight
    /\ formData.confirmPassword = PasswordOther
    /\ formErrors.confirmPassword = MsgConfirmMatch
    /\ formErrors.password = Undefined

\* a file of at most 2 MiB and of type jpeg, jpg or png
C9_Acceptable(file) ==
    /\ file.size <= 2097152
    /\ file.type \in {"image/jpeg", "image/jpg", "image/png"}

\* C9: the active profilePicture, and the file of every register-user request,
\* is at most 2 MiB and a jpeg, jpg or png; selecting any other file sets the
\* profilePicture error and leaves the active picture as it was.
C9_PictureWithinLimits ==
    /\ [](profilePicture.present => C9_Acceptable(profilePicture))
    /\ [](userReq.pending /\ userReq.file.present => C9_Acceptable(userReq.file))
    /\ [][ \A file \in AllFiles :
             (handleProfilePictureChange(file) /\ ~C9_Acceptable(file))
             => /\ profilePicture' = profilePicture
                /\ formErrors'.profilePicture # Undefined ]_vars

C9_Witness ==
    /\ lastEvent = "handleProfilePictureChange"
    /\ formErrors.profilePicture = MsgFileSize
    /\ profilePicture.present

\* C10: after a successful register-email response the countdown is 60 and
\* resend is disabled; the countdown changes only by a tick, which takes exactly
\* 1 off, or by a new start at 60; resend stays disabled until the countdown
\* is 0.
C10_Cooldown ==
    /\ []( (mounted /\ lastEvent = "emailMutation.onSuccess")
             => (countdown = 60 /\ resendDisabled) )
    /\ [](countdown > 0 => resendDisabled)
    /\ [][ /\ lastEvent' = "countdown" => countdown' = countdown - 1
           /\ (mounted' /\ countdown' # countdown)
                => \/ lastEvent' = "countdown"
                   \/ (lastEvent' = "emailMutation.onSuccess" /\ countdown' = 60)
           /\ (mounted' /\ resendDisabled /\ ~resendDisabled') => countdown' = 0 ]_vars

C10_Witness ==
    /\ mounted /\ lastEvent = "countdown"
    /\ countdown = 0 /\ ~resendDisabled /\ currentStep = 2

\* C11: the resend button acts only when the countdown is 0 (a countdown above
\* 0 keeps resend disabled); its click issues a register-email request for the
\* email of the draft, and the success of a register-email request starts the
\* countdown again at 60.
C11_ResendOnlyAtZero ==
    /\ [](countdown > 0 => resendDisabled)
    /\ [][ (mounted /\ currentStep = 2 /\ lastEvent' = "handleEmailSubmit")
             => /\ countdown = 0
                /\ ~emailReq.pending
                /\ emailReq'.pending
                /\ emailReq'.body = [email |-> formData.email]
                /\ formData' = formData ]_vars
    /\ [][ (mounted /\ emailReq.pending /\ lastEvent' = "emailMutation.onSuccess")
             => (countdown' = 60 /\ resendDisabled' /\ ~emailReq'.pending) ]_vars

C11_Witness ==
    /\ mounted /\ currentStep = 2 /\ lastEvent = "handleEmailSubmit"
    /\ countdown = 0 /\ emailReq.pending
    /\ emailReq.body = [email |-> EmailStudent]

\* C12: with the timer of the countdown firing, the countdown of a mounted page
\* is at 0 again and again unless register-email successes start it again and
\* again: a countdown that was started and is not started again gets to 0.  It
\* gets to 0 only by its timer, which enables resend in the same step.
C12_CooldownRunsOut ==
    /\ \/ []<>(~mounted \/ countdown = 0)
       \/ []<><<mounted /\ lastEvent' = "emailMutation.onSuccess">>_vars
    /\ [][ (mounted' /\ countdown > 0 /\ countdown' = 0)
             => /\ lastEvent' = "countdown"
                /\ ~resendDisabled'
                /\ currentStep' = 2 => ~(resendDisabled' \/ isLoadingEmail') ]_vars

C12_Witness ==
    /\ mounted /\ lastEvent = "countdown" /\ countdown = 0
    /\ currentStep = 2 /\ otp = OtpSixDigits
    /\ ~resendDisabled /\ ~isLoadingEmail

\* C13: of each kind at most one request is in flight, the requests a
\* Register left in flight when it was torn down included; while a request of
\* a kind is in flight the controls that would issue another one of that kind
\* cannot be used, and a handler issues a request of a kind only when none of
\* that kind is in flight.
C13_OneRequestPerKind ==
    /\ [](orphans.email + (IF emailReq.pending THEN 1 ELSE 0) <= 1)
    /\ [](orphans.otp + (IF otpReq.pending THEN 1 ELSE 0) <= 1)
    /\ [](orphans.user + (IF userReq.pending THEN 1 ELSE 0) <= 1)
    /\ [](emailReq.pending => ~ENABLED SubmitEmail /\ ~ENABLED ResendClick)
    /\ [](otpReq.pending => ~ENABLED SubmitOtp)
    /\ [](userReq.pending => ~ENABLED SubmitDetails)
    /\ [][ /\ (lastEvent' = "handleEmailSubmit" /\ emailReq.pending)
                => emailReq' = emailReq
           /\ (lastEvent' = "handleOtpSubmit" /\ otpReq.pending)
                => otpReq' = otpReq
           /\ (lastEvent' = "handleDetailsSubmit" /\ userReq.pending)
                => userReq' = userReq
           /\ (emailReq'.pending /\ ~emailReq.pending)
                => (lastEvent' = "handleEmailSubmit" /\ ~isLoadingEmail /\ isLoadingEmail')
           /\ (otpReq'.pending /\ ~otpReq.pending)
                => (lastEvent' = "handleOtpSubmit" /\ ~isLoadingOtp /\ isLoadingOtp')
           /\ (userReq'.pending /\ ~userReq.pending)
                => (lastEvent' = "handleDetailsSubmit" /\ ~isLoadingDetails
                    /\ isLoadingDetails') ]_vars

\* what the back button does: one step back, no request, the draft and the
\* role as they were
C14_BackEffect ==
    [][ lastEvent' = "back"
          => /\ currentStep \in {2, 3}
             /\ currentStep' = currentStep - 1
             /\ <<emailReq, otpReq, userReq>>' = <<emailReq, otpReq, userReq>>
             /\ formData' = formData
             /\ otp' = otp
             /\ profilePicture' = profilePicture
             /\ role' = role ]_vars

\* C14 as stated: the back button can be used in every state of step 2 and of
\* step 3, goes one step back, issues no request and keeps the draft and the
\* role.
C14_BackUnconditional ==
    /\ [](mounted /\ currentStep = 2 => ENABLED BackToEmail)
    /\ [](mounted /\ currentStep = 3 => ENABLED BackToOtp)
    /\ C14_BackEffect

\* C14, amended: the back button of step 2 can be used exactly when neither
\* isLoadingOtp nor isLoadingEmail is set, the one of step 3 exactly when
\* isLoadingDetails is not set; it goes one step back, issues no request and
\* keeps the draft and the role.
C14_BackWhenNotLoading ==
    /\ [](mounted /\ currentStep = 2
            => (ENABLED BackToEmail <=> ~(isLoadingOtp \/ isLoadingEmail)))
    /\ [](mounted /\ currentStep = 3 => (ENABLED BackToOtp <=> ~isLoadingDetails))
    /\ C14_BackEffect

C14_Witness ==
    /\ mounted /\ lastEvent = "back" /\ currentStep = 2
    /\ formData.name = NameAnn /\ formData.nim = EightDigits
    /\ formData.password = PasswordEight /\ otp = OtpSixDigits
    /\ role = "STUDENT"

\* C15: in every state the role is LECTURER exactly when the email of the draft
\* ends with @lecturer.unri.ac.id, STUDENT exactly when it ends with
\* @student.unri.ac.id, and null otherwise; a change of the email issues no
\* request.
C15_RoleFollowsSuffix ==
    /\ [](role = IF endsWith(formData.email, LecturerSuffix) THEN "LECTURER"
                 ELSE IF endsWith(formData.email, StudentSuffix) THEN "STUDENT"
                 ELSE "null")
    /\ [][ lastEvent' = "handleEmailChange"
             => <<emailReq, otpReq, userReq>>' = <<emailReq, otpReq, userReq>> ]_vars

\* C16: the success of a register-user request sets the session to the user of
\* the response with token null and ends the wizard; its failure gives an error
\* to the toaster, changes neither the step nor the draft nor the session, and
\* the step it leaves is 3.
C16_RegisterUserOutcome ==
    /\ [][ (userReq.pending /\ lastEvent' = "userMutation.onSuccess")
             => /\ auth' = [user |-> ServerUser, token |-> "null"]
                /\ ~mounted'
                /\ ~userReq'.pending ]_vars
    /\ [][ (userReq.pending /\ lastEvent' = "userMutation.onError")
             => /\ toast'.kind = "error"
                /\ currentStep' = currentStep
                /\ <<formData, otp, profilePicture, role>>'
                      = <<formData, otp, profilePicture, role>>
                /\ auth' = auth
                /\ auth' = NoAuth ]_vars
    /\ []((mounted /\ lastEvent = "userMutation.onError") => currentStep = 3)

\* C17: no field of the body of a register-user request is the empty string.
C17_OnlyNonEmptyFields ==
    userReq.pending => \A k \in DOMAIN userReq.body : userReq.body[k] # <<>>

\* C18: a register-user request is multipart exactly when it carries a
\* profile picture.
C18_MultipartIffPicture ==
    userReq.pending
    => (userReq.contentType = "multipart/form-data" <=> userReq.file.present)

\* C19: the failure of a register-email request gives an error to the toaster,
\* changes neither the step nor the countdown nor the resend-disabled flag nor
\* the draft, and clears isLoadingEmail, after which the control that issued
\* the request can be used again.
C19_EmailFailureKeepsState ==
    /\ [][ (emailReq.pending /\ lastEvent' = "emailMutation.onError")
             => /\ toast'.kind = "error"
                /\ currentStep' = currentStep
                /\ countdown' = countdown
                /\ resendDisabled' = resendDisabled
                /\ <<formData, otp, profilePicture, role>>'
                      = <<formData, otp, profilePicture, role>>
                /\ ~isLoadingEmail'
                /\ ~emailReq'.pending ]_vars
    /\ []((mounted /\ lastEvent = "emailMutation.onError" /\ currentStep = 1)
            => ENABLED SubmitEmail)
    /\ []((mounted /\ lastEvent = "emailMutation.onError" /\ currentStep = 2)
            => ENABLED ResendClick)

\* C20: a 401 response to a request instance whose _retry is not set removes
\* the stored token, shows one alert and assigns /login to the location, once;
\* a 401 response to an instance whose _retry is set, and any other response,
\* does none of it; every error response rejects the promise of the caller.
\* (A request in flight when the document of /login is loaded gets no
\* response.)
\* So the alerts shown are as many as the instances that got a 401, whatever
\* other instances got one before.
C20_RecoveryOncePerRequest ==
    /\ [][ \A id \in DOMAIN calls :
             (calls[id].state = "sent" /\ calls'[id].state \in {"resolved", "rejected"})
             => /\ calls'[id].status # 200 <=> calls'[id].state = "rejected"
                /\ IF calls'[id].status = 401 /\ ~calls[id].retry
                   THEN /\ alerts' = alerts + 1
                        /\ storedToken' = "null"
                        /\ navigation' = "/login"
                        /\ calls'[id].retry
                   ELSE /\ alerts' = alerts
                        /\ storedToken' = storedToken
                        /\ navigation' = navigation
                        /\ calls'[id].retry = calls[id].retry ]_vars
    /\ [](alerts = Cardinality({id \in DOMAIN calls : calls[id].retry}))

C20_Witness ==
    \E id \in DOMAIN calls, other \in DOMAIN calls :
        /\ id # other
        /\ calls[id].state = "rejected" /\ calls[id].status = 401
        /\ calls[id].attempts = 2 /\ calls[id].authorization # <<>>
        /\ calls[other].state = "rejected" /\ calls[other].status = 401
        /\ calls[other].attempts = 1
        /\ alerts = 2

\* the Authorization header of a request made while token is in localStorage
Bearer(token) == IF token # "null" THEN <<"Bearer ", token>> ELSE <<>>

\* C21: every request that is issued (register-email, verify-OTP, register-user,
\* login) carries Authorization: Bearer <token> when a token is in localStorage
\* and no bearer header when none is.
C21_BearerOnEveryRequest ==
    [][ /\ (~emailReq.pending /\ emailReq'.pending)
            => emailReq'.authorization = Bearer(storedToken)
        /\ (~otpReq.pending /\ otpReq'.pending)
            => otpReq'.authorization = Bearer(storedToken)
        /\ (~userReq.pending /\ userReq'.pending)
            => userReq'.authorization = Bearer(storedToken)
        /\ (~loginReq.pending /\ loginReq'.pending)
            => loginReq'.authorization = Bearer(storedToken) ]_vars

\* C22: setAuth leaves the session equal to its argument and, when the
\* argument holds a token, the same token in localStorage; logout leaves the
\* session {user: null, token: null} and no token in localStorage.
C22_SetAndLogout ==
    [][ /\ \A session \in Sessions :
              setAuth(session)
              => /\ auth' = session
                 /\ session.token # "null" => storedToken' = session.token
        /\ lastEvent' = "logout"
            => (auth' = [user |-> "null", token |-> "null"]
                  /\ storedToken' = "null") ]_vars

\* C23 as stated: after every load of the page the session has the token of
\* localStorage (null when there is none) and the user null.
C23_TokenOfStorage ==
    lastEvent = "mount"
        => (auth.user = "null" /\ auth.token = storedToken)

\* C23, amended: after every load of the page the session has the user null
\* and the token of localStorage when that is a string that is not empty,
\* and the token null when localStorage holds no token or the empty string.
C23_InitialSessionFromStorage ==
    lastEvent = "mount"
        => /\ auth.user = "null"
           /\ storedToken \notin {"null", ""} => auth.token = storedToken
           /\ storedToken \in {"null", ""} => auth.token = "null"

C23_Witness ==
    /\ lastEvent = "mount" /\ location = "/dashboard"
    /\ storedToken = LoginToken /\ auth.token = LoginToken /\ auth.user = "null"

\* C24: a login request in flight has a valid email that ends with one of the
\* three campus suffixes, a password of 6 characters or more and a challenge
\* token; a submit without a challenge token issues no request and leaves a
\* field error, whatever the email and the password are.
C24_LoginRequestGuarded ==
    /\ [](loginReq.pending
            => /\ IsEmail(loginReq.body.email)
               /\ \E suffix \in {StudentSuffix, LecturerSuffix, EngSuffix} :
                     endsWith(loginReq.body.email, suffix)
               /\ Len(loginReq.body.password) >= 6
               /\ loginReq.body.recaptchaToken \notin {"null", ""})
    /\ [][ (lastEvent' = "Login.handleSubmit"
              /\ login.recaptchaToken \in {"null", ""})
            => /\ ~loginReq'.pending
               /\ \/ login'.formErrors.email # Undefined
                  \/ login'.formErrors.password # Undefined ]_vars

C24_Witness ==
    /\ lastEvent = "Login.handleSubmit" /\ ~loginReq.pending
    /\ login.email = EmailEng /\ login.password = PasswordSix
    /\ login.recaptchaToken = "null"
    /\ login.formErrors.password = "Harap selesaikan reCAPTCHA"

\* C25: the success of a login request leaves the user and the token of the
\* response in the session, the same token in localStorage and the location
\* /dashboard; its failure gives an error to the toaster, leaves the session,
\* localStorage and the location as they were, and the form, when the Login
\* is still on the page, can be submitted again.
C25_LoginOutcome ==
    /\ [][ /\ lastEvent' = "Login.success"
               => /\ auth' = [user |-> ServerUser, token |-> LoginToken]
                  /\ storedToken' = LoginToken
                  /\ location' = "/dashboard"
           /\ lastEvent' = "Login.catch"
               => /\ toast'.kind = "error"
                  /\ auth' = auth
                  /\ storedToken' = storedToken
                  /\ location' = location
                  /\ login.mounted => (login'.mounted /\ ~login'.isLoading)
                  /\ ~loginReq'.pending ]_vars
    /\ []((login.mounted /\ lastEvent = "Login.catch") => ENABLED handleSubmit)

\* the texts the taxonomy allows for an error
C26_Fits(error, text) ==
    IF error.axios /\ error.response
    THEN \E m \in {error.bodyMessage, error.bodyError,
                   "Terjadi kesalahan pada server"} \ {Undefined, ""} :
            text = <<m>>
    ELSE IF error.axios /\ error.request
         THEN text = <<"Tidak ada respons dari server">>
         ELSE text # <<>> /\ \A i \in 1..Len(text) : text[i] # ""

\* C26: whatever the catch receives, the toaster is given an error whose text
\* follows the taxonomy: the message of the body or the generic server text
\* for an error with a response, the no-response text for an error with a
\* request and no response, a fallback text otherwise.
C26_ErrorMappingTotal ==
    [][ lastEvent' = "Login.catch"
          => (toast'.kind = "error" /\ C26_Fits(caught', toast'.message)) ]_vars

\* C27: a request is issued only by the step of a submit (or resend) handler,
\* and the step in which a request is rejected leaves no request of its kind
\* in flight: it is the step of onError (of the catch, for a login).
C27_NoAutomaticRetry ==
    [][ /\ (~emailReq.pending /\ emailReq'.pending)
            => lastEvent' = "handleEmailSubmit"
        /\ (~otpReq.pending /\ otpReq'.pending)
            => lastEvent' = "handleOtpSubmit"
        /\ (~userReq.pending /\ userReq'.pending)
            => lastEvent' = "handleDetailsSubmit"
        /\ (~loginReq.pending /\ loginReq'.pending)
            => lastEvent' = "Login.handleSubmit"
        /\ \A error \in AllErrors :
              /\ EmailFailure(error)
                    => (lastEvent' = "emailMutation.onError" /\ ~emailReq'.pending)
              /\ OtpFailure(error)
                    => (lastEvent' = "otpMutation.onError" /\ ~otpReq'.pending)
              /\ UserFailure(error)
                    => (lastEvent' = "userMutation.onError" /\ ~userReq'.pending)
        /\ lastEvent' = "emailMutation.onError" => ~emailReq'.pending
        /\ lastEvent' = "otpMutation.onError" => ~otpReq'.pending
        /\ lastEvent' = "userMutation.onError" => ~userReq'.pending
        /\ lastEvent' = "Login.catch" => ~loginReq'.pending ]_vars

C27_Witness ==
    /\ lastEvent = "otpMutation.onError" /\ toast.kind = "error"
    /\ currentStep = 1 /\ ~isLoadingOtp
    /\ ~emailReq.pending /\ ~otpReq.pending /\ ~userReq.pending

\* the preconditions of step 3
C28_Preconditions(d) ==
    /\ Len(d.name) >= 1
    /\ \/ (d.nim # <<>> /\ d.nip = <<>>
             /\ Len(d.nim) >= 8 /\ \A i \in 1..Len(d.nim) : d.nim[i] \in Digits)
       \/ (d.nip # <<>> /\ d.nim = <<>>
             /\ Len(d.nip) >= 8 /\ \A i \in 1..Len(d.nip) : d.nip[i] \in Digits)
    /\ Len(d.phoneNumber) >= 10 /\ Len(d.phoneNumber) <= 13
    /\ SubSeq(d.phoneNumber, 1, 2) = <<"0", "8">>
    /\ \A i \in 3..Len(d.phoneNumber) : d.phoneNumber[i] \in Digits
    /\ Len(d.password) >= 8
    /\ d.confirmPassword = d.password

\* C28: a register-user request in flight carries a draft that meets every
\* precondition of step 3; a submit of a draft that misses one issues none.
C28_RequestMeetsAllPreconditions ==
    /\ [](userReq.pending => C28_Preconditions(userReq.body))
    /\ [][ (lastEvent' = "handleDetailsSubmit" /\ ~C28_Preconditions(formData))
            => (~userReq'.pending /\ userReq' = userReq) ]_vars

C28_Witness ==
    /\ lastEvent = "handleDetailsSubmit" /\ userReq.pending
    /\ userReq.body.nip = EightDigits /\ userReq.body.nim = <<>>
    /\ userReq.body.phoneNumber = PhoneTenDigits
    /\ userReq.body.confirmPassword = PasswordEight

\* C29: nim and nip of the draft are never both non-empty.
C29_NeverBothIdentifiers ==
    ~(formData.nim # <<>> /\ formData.nip # <<>>)

\* C30: the countdown is an integer from 0 to 60; at most one callback of the
\* countdown is pending; none is pending when the countdown is 0 or when the
\* page is unmounted; a tick acts on a mounted page with a countdown above 0.
C30_OneCountdownTimer ==
    /\ [](countdown \in 0..60)
    /\ [](timers \in {0, 1})
    /\ [](countdown = 0 => timers = 0)
    /\ [](~mounted => timers = 0)
    /\ [][ lastEvent' = "countdown"
             => (mounted /\ countdown > 0 /\ countdown' = countdown - 1) ]_vars

C30_Witness ==
    /\ mounted /\ lastEvent = "emailMutation.onSuccess"
    /\ countdown = 60 /\ timers = 1
    /\ currentStep = 2 /\ otp = OtpSixDigits

\* C32: in every state the token of the session and the token in
\* localStorage agree: both absent, or both present and equal.
C32_SessionMatchesStorage ==
    auth.token = storedToken

\* C33: a register-email request is issued only while the countdown is 0.
C33_NoEmailRequestDuringCooldown ==
    [][ (~emailReq.pending /\ emailReq'.pending) => countdown = 0 ]_vars

\* C34: while a verify-OTP request is in flight or the minimum loading time
\* is awaited, no register-email request is issued and none is in flight.
C34_NoResendDuringVerification ==
    /\ []((otpReq.pending \/ otpPhase = "delay") => ~emailReq.pending)
    /\ [][ (otpReq.pending \/ otpPhase = "delay")
             => ~(~emailReq.pending /\ emailReq'.pending) ]_vars

\* C31: a register-user request that is issued carries a non-empty nip and an
\* empty nim when its email ends with @lecturer.unri.ac.id, and a non-empty
\* nim and an empty nip when its email ends with @student.unri.ac.id.
C31_IdentifierMatchesEmail ==
    [][ (~userReq.pending /\ userReq'.pending)
          => /\ endsWith(userReq'.body.email, LecturerSuffix)
                  => (userReq'.body.nip # <<>> /\ userReq'.body.nim = <<>>)
             /\ endsWith(userReq'.body.email, StudentSuffix)
                  => (userReq'.body.nim # <<>> /\ userReq'.body.nip = <<>>) ]_vars

\* C35: a register-user request that is issued carries the email of the
\* verify-OTP request that succeeded last; the email of the draft changes
\* only at step 1, and step 3 is entered only with the email verified last.
C35_RequestCarriesVerifiedEmail ==
    /\ [][ (~userReq.pending /\ userReq'.pending)
             => (verifiedEmail # <<>> /\ userReq'.body.email = verifiedEmail) ]_vars
    /\ [](mounted /\ currentStep = 3 => formData.email = verifiedEmail)
    /\ [][ formData'.email # formData.email
             => (currentStep = 1 \/ ~mounted') ]_vars

C35_Witness ==
    /\ userReq.pending /\ lastEvent = "handleDetailsSubmit"
    /\ userReq.body.email = EmailLecturer /\ verifiedEmail = EmailLecturer
    /\ userReq.body.nim = EightDigits /\ userReq.body.nip = <<>>

====
